---- MODULE Spec2Model ----
(***************************************************************************)
(* Model of the TissueMAPS orchestration core:                             *)
(*   - ClusterWorkflowManager        (src/tmlib/tmaps/workflow.py)         *)
(*   - ImageAnalysisPipelineEngine   (src/tmlib/workflow/jterator/api.py)  *)
(* Each component has its own specification over the shared variables.     *)
(***************************************************************************)
EXTENDS Integers, Sequences, FiniteSets, TLC

VARIABLES
    \* ---- ClusterWorkflowManager ----
    descFile,          \* content of the "<experiment>.workflow" file: Seq of step commands
    readAtStart,       \* the description as __init__ read it
    fs,                \* set of paths that exist (os.path.exists)
    mgr,               \* "none" (not constructed), "live", "raised" (__init__ raised)
    tasks,             \* self.tasks
    expected_outputs,  \* self.expected_outputs
    stopped,           \* self.__stopped
    exitcode,          \* self.exitcode: <<>> is None, <<n>> is n
    ret,               \* outcome of the last next() call
    lastDone,          \* argument of the last next() call (-1: none yet)
    ncalls,            \* number of next() calls so far
    inorder,           \* all calls so far were next(0), next(1), ... and none failed
    \* ---- ImageAnalysisPipelineEngine.create_run_batches ----
    dbSites,           \* ids of the tm.Site rows of the experiment
    channels,          \* names of project.pipe.description.input.channels
    bargs,             \* args: [batch_size, plot]
    gpc,               \* generator: "none", "created", "suspended", "exhausted", "raised"
    site_ids,          \* local site_ids
    batches,           \* local batches
    j,                 \* loop index of enumerate(batches)
    image_file_locations,  \* local image_file_locations of the current batch
    emitted,           \* the job descriptions yielded so far
    \* ---- ImageAnalysisPipelineEngine._run_pipeline ----
    pipeline,          \* self.pipeline: the modules with their handles
    store,             \* store['pipe']: key -> value
    ppc,               \* "idle", "update_handles", "run", "update_store", "done", "raised"
    it,                \* number of the loop iteration (from 1)
    handles,           \* input handle values bound to the current module
    execlog,           \* what the modules did so far, in order
    languages,         \* module.language of each module of self.pipeline
    runlog,            \* the module.run calls so far: [site, m, lang, engine]
    plotRequested,     \* the argument plot of _run_pipeline (batch['plot'])
    plotHandles,       \* for each module: the values of its input handles named 'plot'
    figures,           \* the figure files written so far: <<site, module>>
    bindlog,           \* the update_handles calls so far: [site, m, headless]
    \* ---- ImageAnalysisPipelineEngine.run_job ----
    rjSites,           \* batch['site_ids']
    rpc,               \* "idle", "start_engines", "load", "run", "done", "raised"
    si,                \* position of the loop over batch['site_ids'] (from 1)
    engines,           \* self._engines: language -> engine
    engineStarts,      \* number of start_engines calls so far
    matlabOk,          \* matlab_wrapper is installed and MATLABPATH is set
    failing,           \* sites on which a module raises an execution error
    channel_input,     \* project.pipe.description.input.channels: [name, correct]
    illumstats,        \* names of the channels that have an IllumstatsFile row
    unitOutput,        \* store['objects'] as the modules leave it, with its description
    images,            \* the image files loaded so far: <<site, channel>>
    rjErr,             \* class of the exception that ended run_job
    loaded,            \* sites whose input _load_pipeline_input has loaded, in order
    persisted,         \* sites whose outputs _save_pipeline_outputs has written, in order
    \* ---- the experiment database ----
    database,          \* the tables mapobject_types, mapobjects, features, feature_values
    \* ---- ImageAnalysisPipelineEngine._save_pipeline_outputs ----
    svpc,              \* "idle", "objects", "done", "raised"
    svObjects,         \* store['objects']: name -> segmented objects
    svDesc,            \* project.pipe.description: [input, output] objects
    svSite,            \* store['site_id']
    svOrder,           \* objects_to_save, in the order the dict is iterated
    svI,               \* position of the loop over objects_to_save (from 1)
    measurements,      \* local measurements, as the first loop left it
    svPrior,           \* what delete_cascade found for each object so far
    nsaves,            \* number of _save_pipeline_outputs calls so far
    \* ---- ImageAnalysisPipelineEngine.collect_job_output ----
    cpc,               \* "idle", "lookup", "aggregate", "done", "raised"
    cerr,              \* class of the exception that ended collect_job_output
    ref_id_lut,        \* ref_id_lut: level -> id of its reference type
    work,              \* the _aggregate / _aggregate_aggregates calls still to make
    new_features,      \* new_features: level -> {<<id, name>>}
    aggregated,        \* the types the calls made so far aggregated over
    ncollects,         \* number of completed collect_job_output calls
    firstRun,          \* aggregate features and values after the first call
    \* ---- the run jobs and the collect job of one step ----
    jobs,              \* the run jobs: [site_ids, state, saved]
    stepChoice,        \* what the pipeline produces for a site of this step
    \* ---- ImageAnalysisPipelineEngine.pipeline ----
    elements,          \* self.project.pipe.description.pipeline: [active, source]
    moduleFiles,       \* the module files that exist (os.path.exists)
    bpc,               \* "none" (not evaluated), "built", "raised"
    built,             \* the list the property returned
    checked,           \* the paths os.path.exists was asked for
    \* ---- ImageAnalysisPipelineEngine._add_feature ----
    afpc,              \* for each caller: "idle", "insert", "select", "raised"
    afArgs,            \* for each caller: the arguments of its call
    afReturned,        \* the calls that returned: [caller, name, mapobject_type_id, id]
    afCalls,           \* for each caller: the number of its calls so far
    \* ---- ImageAnalysisPipelineEngine.create_debug_run_jobs ----
    dbgpc,             \* "idle", "returned", "raised"
    dbgArgs,           \* the arguments: [batches, duration, memory, cores]
    job_collection,    \* the jobs of the run phase, in the order they were added
    dbgErr             \* class of the exception that ended the call

wfVars == <<descFile, readAtStart, fs, mgr, tasks, expected_outputs, stopped, exitcode,
            ret, lastDone, ncalls, inorder>>

batchVars == <<dbSites, channels, bargs, gpc, site_ids, batches, j,
               image_file_locations, emitted>>

pipeVars == <<pipeline, store, ppc, it, handles, execlog, languages, runlog,
              plotRequested, plotHandles, figures, bindlog>>

rjVars == <<rjSites, rpc, si, engines, engineStarts, matlabOk, failing,
            channel_input, illumstats, unitOutput, images, rjErr,
            loaded, persisted>>

\* the description and the tables run_job only reads
rjInputs == <<channel_input, illumstats, unitOutput>>

saveVars == <<svpc, svObjects, svDesc, svSite, svOrder, svI, measurements,
              svPrior, nsaves>>

collectVars == <<cpc, cerr, ref_id_lut, work, new_features, aggregated,
                 ncollects, firstRun>>

stepVars == <<jobs, stepChoice>>

buildVars == <<elements, moduleFiles, bpc, built, checked>>

featVars == <<afpc, afArgs, afReturned, afCalls>>

debugVars == <<dbgpc, dbgArgs, job_collection, dbgErr>>

vars == <<wfVars, batchVars, pipeVars, rjVars, database, saveVars, collectVars,
          stepVars, buildVars, featVars, debugVars>>

\* what the workflow manager leaves alone
nonWfVars == <<batchVars, pipeVars, rjVars, database, saveVars, collectVars, stepVars,
                buildVars, featVars, debugVars>>

\* what create_run_batches leaves alone
nonBatchVars == <<wfVars, pipeVars, rjVars, database, saveVars, collectVars, stepVars,
                   buildVars, featVars, debugVars>>

\* what _run_pipeline leaves alone
nonPipeVars == <<wfVars, batchVars, rjVars, database, saveVars, collectVars, stepVars,
                  buildVars, featVars, debugVars>>

\* what run_job leaves alone outside of _run_pipeline
nonRjVars == <<wfVars, batchVars, database, saveVars, collectVars, stepVars,
                buildVars, featVars, debugVars>>

\* what _save_pipeline_outputs leaves alone
nonSaveVars == <<wfVars, batchVars, pipeVars, rjVars, collectVars, stepVars,
                  buildVars, featVars, debugVars>>

\* what the jobs of a step leave alone
nonStepVars == <<wfVars, batchVars, pipeVars, rjVars, saveVars,
                  buildVars, featVars, debugVars>>

\* what the pipeline property leaves alone
nonBuildVars == <<wfVars, batchVars, pipeVars, rjVars, database, saveVars,
                  collectVars, stepVars, featVars, debugVars>>

\* what _add_feature leaves alone
nonFeatVars == <<wfVars, batchVars, pipeVars, rjVars, saveVars, collectVars,
                 stepVars, buildVars, debugVars>>

\* what create_debug_run_jobs leaves alone
nonDebugVars == <<wfVars, batchVars, pipeVars, rjVars, database, saveVars,
                  collectVars, stepVars, buildVars, featVars>>

\* what collect_job_output leaves alone
nonCollectVars == <<wfVars, batchVars, pipeVars, rjVars, saveVars, stepVars,
                     buildVars, featVars, debugVars>>

(***************************************************************************)
(* Bounds                                                                  *)
(***************************************************************************)
MaxSteps == 3      \* longest workflow description
MaxCalls == 3      \* number of next() calls explored
MaxSites == 5      \* largest site id
MaxBatchSize == 3  \* largest args.batch_size
MaxModules == 3    \* longest pipeline
MaxElements == 2   \* longest pipeline description
RjMaxModules == 2  \* longest pipeline of a run job
RjMaxSites == 2    \* largest site id of a run job's batch
MaxSaves == 2      \* number of _save_pipeline_outputs calls explored
MaxCollects == 2   \* number of collect_job_output calls explored
MaxAddCalls == 2   \* number of _add_feature calls of one connection
MaxBatches == 2    \* longest list of debug batches
NSites == 2        \* number of sites of the experiment
RawDecimals == 8   \* decimals of a measured value before it is rounded

(***************************************************************************)
(* Python lists                                                            *)
(***************************************************************************)
SeqsUpTo(S, n) == UNION { [1..k -> S] : k \in 0..n }

\* Python list index -> TLA sequence index
At(s, i) == s[i + 1]
Last(s) == s[Len(s)]

\* the elements of a list
Elems(s) == {s[i] : i \in 1..Len(s)}

(***************************************************************************)
(* ImageAnalysisPipelineEngine.create_run_batches                          *)
(***************************************************************************)
AllChannels == {"dapi", "gfp"}

Min(a, b) == IF a < b THEN a ELSE b

SetMin(S) == CHOOSE x \in S : \A y \in S : x <= y
SetMax(S) == CHOOSE x \in S : \A y \in S : y <= x

RECURSIVE Ascending(_)
Ascending(S) == IF S = {} THEN <<>>
                ELSE <<SetMin(S)>> \o Ascending(S \ {SetMin(S)})

RECURSIVE Descending(_)
Descending(S) == IF S = {} THEN <<>>
                 ELSE <<SetMax(S)>> \o Descending(S \ {SetMax(S)})

\* the site query ordered the wrong way round
SiteIds_Desc(db) == Descending(db)

\* session.query(tm.Site.id).order_by(tm.Site.id).all()
SiteIds(db) == Ascending(db)

\* WorkflowStepAPI._create_batches(li, n): consecutive slices li[i:i+n]
CreateBatches(li, n) ==
    [k \in 1..((Len(li) + n - 1) \div n) |->
        SubSeq(li, (k - 1) * n + 1, Min(k * n, Len(li)))]

\* tm.ChannelImageFile._location of the image of a site and channel
Location(site, channel) == <<site, channel>>

\* the query of lines 204-210: locations of the images of the named channels
\* at the sites of the batch
ImageFileLocations(channel_names, batch) ==
    { Location(batch[i], c) : i \in 1..Len(batch), c \in channel_names }

\* the plot check that forgets the plot flag
PlotConstraintViolated_NoPlot(args) == args.batch_size # 1

\* the condition of line 194
PlotConstraintViolated(args) == args.plot /\ args.batch_size # 1

\* a yielded job description with a zero-based id
JobDescription_ZeroBased(jj, batch, plot) ==
    [id |-> jj, site_ids |-> batch, plot |-> plot]

\* the yielded job description (jj is the zero-based enumerate index)
JobDescription(jj, batch, plot) ==
    [id |-> jj + 1, site_ids |-> batch, plot |-> plot]

\* nothing has been requested
BatchIdle ==
    /\ dbSites = {}
    /\ channels = {}
    /\ bargs = [batch_size |-> 1, plot |-> FALSE]
    /\ gpc = "none"
    /\ site_ids = <<>>
    /\ batches = <<>>
    /\ j = 0
    /\ image_file_locations = {}
    /\ emitted = <<>>

\* the call create_run_batches(args): a generator is returned, no line of
\* the body has run yet
CreateRunBatches(args) ==
    /\ gpc = "none"
    /\ bargs' = args
    /\ gpc' = "created"
    /\ UNCHANGED <<dbSites, channels, site_ids, batches, j,
                   image_file_locations, emitted>>
    /\ UNCHANGED nonBatchVars

\* the body of one loop iteration for batches[jj + 1], up to its yield
LoopBody(jj, bs) ==
    /\ j' = jj
    /\ image_file_locations' = ImageFileLocations(channels, At(bs, jj))
    /\ emitted' = Append(emitted, JobDescription(jj, At(bs, jj), bargs.plot))
    /\ gpc' = "suspended"

\* first resumption of the generator: lines 190-202, then the loop up to
\* the first yield
GenStart ==
    /\ gpc = "created"
    /\ IF PlotConstraintViolated(bargs)
       THEN /\ gpc' = "raised"
            /\ UNCHANGED <<site_ids, batches, j, image_file_locations, emitted>>
       ELSE LET ids == SiteIds(dbSites)
                bs == CreateBatches(ids, bargs.batch_size)
            IN  /\ site_ids' = ids
                /\ batches' = bs
                /\ IF Len(bs) > 0
                   THEN LoopBody(0, bs)
                   ELSE /\ gpc' = "exhausted"
                        /\ UNCHANGED <<j, image_file_locations, emitted>>
    /\ UNCHANGED <<dbSites, channels, bargs>>
    /\ UNCHANGED nonBatchVars

\* a later resumption: from the yield to the next yield or the end
GenResume ==
    /\ gpc = "suspended"
    /\ IF j + 1 < Len(batches)
       THEN LoopBody(j + 1, batches)
       ELSE /\ gpc' = "exhausted"
            /\ UNCHANGED <<j, image_file_locations, emitted>>
    /\ UNCHANGED <<dbSites, channels, bargs, site_ids, batches>>
    /\ UNCHANGED nonBatchVars


(***************************************************************************)
(* ImageAnalysisPipelineEngine.pipeline                                    *)
(***************************************************************************)
\* A path is the list of its parts between the '/': the first part of an
\* absolute path is the empty string, "~" is the home directory of the user.
StepLocation == <<"", "experiment", "jterator">>
Home == <<"", "home">>

\* the forms of element.source: absolute, relative, below the home directory
\* and a bare file name
AbsSource == <<"", "lib", "segment.py">>
RelSource == <<"modules", "segment.py">>
HomeSource == <<"~", "segment.py">>
BareSource == <<"segment.py">>
Sources == {AbsSource, RelSource, HomeSource, BareSource}

\* '/' in source_file
HasSlash(source) == Len(source) > 1

\* os.path.expanduser(source_file)
ExpandUser(source) ==
    IF Head(source) = "~" THEN Home \o Tail(source) ELSE source

\* os.path.isabs(source_file)
IsAbs(source) == Head(source) = ""

\* os.path.join(self.step_location, source_file) for a relative source_file
Join(location, source) == location \o source

\* lines 108-113: the source_file the module is created with
SourceFile(source) ==
    IF HasSlash(source)
    THEN IF IsAbs(ExpandUser(source)) THEN ExpandUser(source)
         ELSE Join(StepLocation, ExpandUser(source))
    ELSE source

\* lines 109-114: the existence check, made for a source with a '/' only
SourceMissing(source, files) ==
    HasSlash(source) /\ SourceFile(source) \notin files

\* ImageAnalysisModule(name, source_file, handles) for the element at list
\* index i (from 0): name and handles come from self.project.handles[i]
Module(i, source) == [name |-> i, source_file |-> SourceFile(source), handles |-> i]

RECURSIVE BuildFrom_NoSkip(_, _, _, _)
\* the loop without the test of element.active
BuildFrom_NoSkip(desc, files, i, acc) ==
    IF i > Len(desc) THEN acc
    ELSE LET asked == IF HasSlash(desc[i].source)
                      THEN acc.checked \cup {SourceFile(desc[i].source)}
                      ELSE acc.checked
         IN  IF SourceMissing(desc[i].source, files)
             THEN [raised |-> TRUE, pipeline |-> acc.pipeline, checked |-> asked]
             ELSE BuildFrom_NoSkip(desc, files, i + 1,
                      [raised |-> FALSE,
                       pipeline |-> Append(acc.pipeline,
                                           Module(i - 1, desc[i].source)),
                       checked |-> asked])

RECURSIVE BuildFrom(_, _, _, _)
\* lines 104-124: the loop over the elements from position i on; acc is
\* [raised, pipeline, checked]
BuildFrom(desc, files, i, acc) ==
    IF i > Len(desc) THEN acc
    ELSE IF ~ desc[i].active THEN BuildFrom(desc, files, i + 1, acc)
    ELSE LET asked == IF HasSlash(desc[i].source)
                      THEN acc.checked \cup {SourceFile(desc[i].source)}
                      ELSE acc.checked
         IN  IF SourceMissing(desc[i].source, files)
             THEN [raised |-> TRUE, pipeline |-> acc.pipeline, checked |-> asked]
             ELSE BuildFrom(desc, files, i + 1,
                      [raised |-> FALSE,
                       pipeline |-> Append(acc.pipeline,
                                           Module(i - 1, desc[i].source)),
                       checked |-> asked])

BuildIdle ==
    /\ elements = <<>>
    /\ moduleFiles = {}
    /\ bpc = "none"
    /\ built = <<>>
    /\ checked = {}

\* the property pipeline is read for the first time
BuildPipeline ==
    /\ bpc = "none"
    /\ LET res == BuildFrom(elements, moduleFiles, 1,
                      [raised |-> FALSE, pipeline |-> <<>>, checked |-> {}])
       IN  /\ bpc' = IF res.raised THEN "raised" ELSE "built"
           /\ built' = IF res.raised THEN <<>> ELSE res.pipeline
           /\ checked' = res.checked
    /\ UNCHANGED <<elements, moduleFiles>>
    /\ UNCHANGED nonBuildVars

(***************************************************************************)
(* ImageAnalysisPipelineEngine._run_pipeline                               *)
(***************************************************************************)
\* keys of store['pipe']: "img" and "dapi" are input channels loaded by
\* _load_pipeline_input, "a" and "b" are written by modules
StoreKeys == {"img", "dapi", "a", "b"}

\* a module with its handles description: the store keys of its input
\* handles and the store key of its output handle
ModuleSpecs ==
    { [ins |-> i, out |-> o] : i \in {{"img"}, {"a"}, {"b"}, {"a", "b"}},
                               o \in {"a", "b"} }

\* a value of the store: <<>> is "no such key", <<0>> is what
\* _load_pipeline_input stored, <<k>> is what module k computed
StoreOf(channel_names) ==
    [key \in StoreKeys |-> IF key \in channel_names THEN <<0>> ELSE <<>>]

\* the store of a unit with the one input channel "img"
LoadedStore == StoreOf({"img"})

\* the pipeline enumerated back to front
ModuleOrder_Reversed(pl) == [i \in 1..Len(pl) |-> Len(pl) + 1 - i]

\* enumerate(self.pipeline): iteration i runs module i
ModuleOrder(pl) == [i \in 1..Len(pl) |-> i]

\* the module of the current iteration
Current == ModuleOrder(pipeline)[it]

\* module.update_handles(store, ...): the values of the input handles, read
\* from the store
UpdateHandles(module, st) == [key \in module.ins |-> st[key]]

\* an input handle names a key the store does not hold
MissingInput(module, st) == \E key \in module.ins : st[key] = <<>>

\* module.run(engine): the value module k computes for its output handle
ModuleRun(k) == <<k>>

\* module.update_store(store): the output handle is written to the store
UpdateStore(module, k, st) == [st EXCEPT ![module.out] = ModuleRun(k)]

\* determine_language: the languages a module file can be written in
Languages == {"Matlab", "R", "Python", "Julia"}

\* the unit the job is working on (0: _run_pipeline on its own)
CurrentSite == IF si \in 1..Len(rjSites) THEN rjSites[si] ELSE 0

\* the module code raises an execution error on this unit
ExecutionError(site, m) == site \in failing /\ m = Len(pipeline)

\* every module is handed the Python entry of the registry
EngineFor_Python(lang, eng) == eng["Python"]

\* self._engines[module.language]
EngineFor(lang, eng) == eng[lang]

\* line 347: headless=not plot
Headless(requested) == ~ requested

\* lines 351-357: the value of the first input handle named 'plot', False
\* if the module has none
PlottingActive(plot_handles) ==
    IF Len(plot_handles) > 0 THEN plot_handles[1] ELSE FALSE

\* the figure is written whenever the module enables plotting
WritesFigure_Unrequested(requested, plot_handles) == PlottingActive(plot_handles)

\* line 358: if plot and plotting_active
WritesFigure(requested, plot_handles) ==
    requested /\ PlottingActive(plot_handles)

\* module.build_figure_filename(self.figures_location, site_id)
FigureFile(site, m) == <<site, m>>

PipeIdle ==
    /\ pipeline = <<>>
    /\ store = LoadedStore
    /\ ppc = "idle"
    /\ it = 1
    /\ handles = <<>>
    /\ execlog = <<>>
    /\ languages = <<>>
    /\ runlog = <<>>
    /\ plotRequested = FALSE
    /\ plotHandles = <<>>
    /\ figures = {}
    /\ bindlog = <<>>

\* _run_pipeline(store, site_id, plot) is entered
RunPipeline ==
    /\ ppc = "idle"
    /\ ppc' = IF Len(pipeline) = 0 THEN "done" ELSE "update_handles"
    /\ it' = 1
    /\ UNCHANGED <<pipeline, store, handles, execlog, languages, runlog,
                   plotRequested, plotHandles, figures, bindlog>>
    /\ UNCHANGED nonPipeVars

\* line 347: module.update_handles(store, headless=not plot)
RunUpdateHandles ==
    /\ ppc = "update_handles"
    /\ LET module == pipeline[Current]
       IN  IF MissingInput(module, store)
           THEN /\ ppc' = "raised"
                /\ UNCHANGED <<handles, execlog, bindlog>>
           ELSE /\ handles' = UpdateHandles(module, store)
                /\ execlog' = Append(execlog,
                                [kind |-> "bind", m |-> Current,
                                 vals |-> UpdateHandles(module, store)])
                /\ bindlog' = Append(bindlog,
                                [site |-> CurrentSite, m |-> Current,
                                 headless |-> Headless(plotRequested)])
                /\ ppc' = "run"
    /\ UNCHANGED <<pipeline, store, it, languages, runlog, plotRequested,
                   plotHandles, figures>>
    /\ UNCHANGED nonPipeVars

\* line 348: module.run(self._engines[module.language]); the lookup raises
\* KeyError for a language without an entry, the module code may raise
RunModule ==
    /\ ppc = "run"
    /\ LET lang == languages[Current]
       IN  IF lang \notin DOMAIN engines \/ ExecutionError(CurrentSite, Current)
           THEN /\ ppc' = "raised"
                /\ UNCHANGED <<execlog, runlog>>
           ELSE /\ execlog' = Append(execlog,
                                [kind |-> "run", m |-> Current, vals |-> <<>>])
                /\ runlog' = Append(runlog,
                                [site |-> CurrentSite, m |-> Current,
                                 lang |-> lang,
                                 engine |-> EngineFor(lang, engines)])
                /\ ppc' = "update_store"
    /\ UNCHANGED <<pipeline, store, it, handles, languages, plotRequested,
                   plotHandles, figures, bindlog>>
    /\ UNCHANGED nonPipeVars

\* lines 349-363: store = module.update_store(store), the figure is written
\* if plotting is requested and active, then the next iteration
RunUpdateStore ==
    /\ ppc = "update_store"
    /\ store' = UpdateStore(pipeline[Current], Current, store)
    /\ execlog' = Append(execlog, [kind |-> "write", m |-> Current, vals |-> <<>>])
    /\ figures' = IF WritesFigure(plotRequested, plotHandles[Current])
                  THEN figures \cup {FigureFile(CurrentSite, Current)}
                  ELSE figures
    /\ IF it < Len(pipeline)
       THEN /\ it' = it + 1
            /\ ppc' = "update_handles"
       ELSE /\ ppc' = "done"
            /\ UNCHANGED it
    /\ UNCHANGED <<pipeline, handles, languages, runlog, plotRequested,
                   plotHandles, bindlog>>
    /\ UNCHANGED nonPipeVars

(***************************************************************************)
(* ImageAnalysisPipelineEngine.run_job                                     *)
(***************************************************************************)
\* __init__, line 80: self._engines = {'Python': None, 'R': None}
InitialEngines == [lang \in {"Python", "R"} |-> "None"]

\* [m.language for m in self.pipeline]
PipelineLanguages == {languages[i] : i \in 1..Len(languages)}

\* start_engines: self._engines['Matlab'] = matlab.MatlabSession(...)
StartedEngines(eng) ==
    [lang \in DOMAIN eng \cup {"Matlab"} |->
        IF lang = "Matlab" THEN "MatlabSession" ELSE eng[lang]]

\* the lookup of the illumination statistics never fails
MissingStatistics_Ignored(ch, stats) == FALSE

\* lines 277-290: the channel is to be corrected and
\* session.query(tm.IllumstatsFile) ... .one() raises NoResultFound, which
\* is turned into PipelineDescriptionError
MissingStatistics(ch, stats) == ch.correct /\ ch.name \notin stats

RECURSIVE LoadChannels(_, _, _, _)
\* lines 264-307: the loop over channel_input, ended by the first channel
\* without statistics; names are the channels whose images were loaded
LoadChannels(chs, stats, i, names) ==
    IF i > Len(chs) THEN [raised |-> FALSE, names |-> names]
    ELSE IF MissingStatistics(chs[i], stats)
    THEN [raised |-> TRUE, names |-> names]
    ELSE LoadChannels(chs, stats, i + 1, Append(names, chs[i].name))

\* a description with the one channel "img", not to be corrected
PlainChannels == <<[name |-> "img", correct |-> FALSE]>>

RjIdle ==
    /\ rjSites = <<>>
    /\ rpc = "idle"
    /\ si = 0
    /\ engines = InitialEngines
    /\ engineStarts = 0
    /\ matlabOk = TRUE
    /\ failing = {}
    /\ channel_input = PlainChannels
    /\ illumstats = {}
    /\ unitOutput = <<>>
    /\ images = <<>>
    /\ rjErr = "none"
    /\ loaded = <<>>
    /\ persisted = <<>>

(***************************************************************************)
(* The experiment database                                                 *)
(***************************************************************************)
\* data.round(6), np.round(..., 6): the decimals a feature value is kept with
Decimals == 6

RECURSIVE Pow10(_)
Pow10(n) == IF n = 0 THEN 1 ELSE 10 * Pow10(n - 1)

\* A feature value is held in units of 10^-Decimals: <<x>> is the number x,
\* <<>> is NaN.  The quotient it was rounded from is kept next to it:
\* <<num, den>>, or <<>> for NaN.
NaN == <<>>

\* num / den cut off towards minus infinity
Round_Floor(num, den) == num \div den

\* numpy's round: num / den rounded to the nearest integer, a tie to the even one
Round(num, den) ==
    LET q == num \div den
        r == num % den
    IN  IF 2 * r < den THEN q
        ELSE IF 2 * r > den THEN q + 1
        ELSE IF q % 2 = 0 THEN q ELSE q + 1

\* the order in which a Python dict or a query result is iterated
RECURSIVE SetToSeq(_)
SetToSeq(S) ==
    IF S = {} THEN <<>>
    ELSE LET x == CHOOSE x \in S : TRUE
         IN  <<x>> \o SetToSeq(S \ {x})

\* number of elements of S below x
Rank(x, S) == Cardinality({y \in S : y < x})

\* a key of FeatureValues.values: str(feature id), or a column name that was
\* not replaced by an id
IdKey(id) == [id |-> id, name |-> <<>>]
NameKey(name) == [id |-> 0, name |-> name]

\* the object types of the plate layout
PlateType == [id |-> 1, name |-> "Plates", ref_type |-> "Plate"]
WellType == [id |-> 2, name |-> "Wells", ref_type |-> "Well"]
SiteType == [id |-> 3, name |-> "Sites", ref_type |-> "Site"]
StaticTypes == {PlateType, WellType, SiteType}

\* the objects of the plate layout: one plate with one well with NSites
\* sites; an object's region is the set of sites its polygon covers
LayoutObject(id, type, region) ==
    [id |-> id, mapobject_type_id |-> type.id, region |-> region,
     npoly |-> 1, nsegm |-> 1, segm |-> {0}, valid |-> TRUE]

StaticObjects(types) ==
    {LayoutObject(PlateType.id, PlateType, 1..NSites) : t \in types \cap {PlateType}}
    \cup {LayoutObject(WellType.id, WellType, 1..NSites) : t \in types \cap {WellType}}
    \cup {LayoutObject(SiteType.id + k - 1, SiteType, {k}) :
            k \in {n \in 1..NSites : SiteType \in types}}

\* the database before the step has run
StaticDb(types) ==
    [mapobject_types |-> types,
     mapobjects |-> StaticObjects(types),
     features |-> {},
     feature_values |-> {},
     segmentation_layers |-> {},
     maxzoom_level_index |-> 6,
     serial |-> [mapobject_types |-> SiteType.id + 2,
                 mapobjects |-> SiteType.id + NSites,
                 features |-> 1,
                 feature_values |-> 1,
                 segmentation_layers |-> 1]]

\* the database of an experiment whose channel layer has the maximum zoom
\* level index z
WithMaxzoom(d, z) == [d EXCEPT !.maxzoom_level_index = z]

TypeByName(d, name) == CHOOSE t \in d.mapobject_types : t.name = name

TypeById(d, id) == CHOOSE t \in d.mapobject_types : t.id = id

\* session.get_or_create(tm.MapobjectType, name=obj_name)
GetOrCreateType(d, name) ==
    IF \E t \in d.mapobject_types : t.name = name
    THEN d
    ELSE [d EXCEPT !.mapobject_types = @ \cup
                       {[id |-> d.serial.mapobject_types, name |-> name,
                         ref_type |-> "None"]},
                   !.serial.mapobject_types = @ + 1]

\* session.get_or_create(tm.Feature, name, mapobject_type_id, is_aggregate=False)
GetOrCreateFeature(d, name, tid) ==
    IF \E f \in d.features :
            f.name = name /\ f.mapobject_type_id = tid /\ ~ f.is_aggregate
    THEN d
    ELSE [d EXCEPT !.features = @ \cup
                       {[id |-> d.serial.features, name |-> name,
                         mapobject_type_id |-> tid, is_aggregate |-> FALSE]},
                   !.serial.features = @ + 1]

\* the mapobjects in gone are deleted together with their segmentations and
\* feature values
DeleteMapobjects(d, gone) ==
    [d EXCEPT !.mapobjects = @ \ gone,
              !.feature_values =
                  {v \in @ : \A m \in gone : v.mapobject_id # m.id}]

\* the mapobjects of a type that lie in a site
MapobjectsOfSite(d, tid, site) ==
    {m \in d.mapobjects : m.mapobject_type_id = tid /\ m.region = {site}}

\* tm.Mapobject.delete_cascade(conn, type_id, ref_type='Site', ref_id=site_id)
DeleteCascade(d, tid, site) == DeleteMapobjects(d, MapobjectsOfSite(d, tid, site))

(***************************************************************************)
(* ImageAnalysisPipelineEngine._save_pipeline_outputs                      *)
(***************************************************************************)
Area == <<"Area">>
Intensity == <<"Intensity">>

\* segmented objects of the store: the labels, the columns and the number of
\* time points of the measurements, the <<label, time point>> whose polygon
\* is empty, the time points whose measurement table is empty and the labels
\* with an invalid polygon (time points count from 1 here, tpoint from 0)
SegmentedObjects(name, labels, columns, ntp, nopoly, empty) ==
    [name |-> name, labels |-> labels, columns |-> columns, ntp |-> ntp,
     nopoly |-> nopoly, empty |-> empty, invalid |-> {}]

\* store['objects'] of a unit
StoreSamples ==
    { "Cells" :> SegmentedObjects("Cells", {1, 2}, {Area}, 1, {}, {}),
      "Cells" :> SegmentedObjects("Cells", {1, 2}, {Area}, 2,
                                  {<<2, 1>>, <<2, 2>>}, {}),
      "Cells" :> SegmentedObjects("Cells", {1, 2}, {Area}, 2, {<<2, 1>>}, {1}),
      ("Cells" :> SegmentedObjects("Cells", {1, 2}, {Area}, 1, {}, {}))
          @@ ("Nuclei" :> SegmentedObjects("Nuclei", {1, 2}, {Intensity}, 1, {}, {})),
      ("Cells" :> SegmentedObjects("Cells", {1}, {Area}, 1, {}, {}))
          @@ ("Nuclei" :> SegmentedObjects("Nuclei", {1, 2}, {Area, Intensity}, 1,
                                           {}, {})),
      ("Cells" :> SegmentedObjects("Cells", {1, 2}, {Area}, 2, {}, {1}))
          @@ ("Nuclei" :> SegmentedObjects("Nuclei", {1, 2}, {Intensity}, 2,
                                           {}, {})) }

\* project.pipe.description for a store: the output objects and the input
\* objects; an input object is in the store from _load_pipeline_input on
\* (line 335)
DescSamples(objects) ==
    { [output |-> out, input |-> in] :
        out \in {o \in { {[name |-> "Cells", as_polygons |-> TRUE]},
                         {[name |-> "Cells", as_polygons |-> FALSE]},
                         {[name |-> "Cells", as_polygons |-> TRUE],
                          [name |-> "Nuclei", as_polygons |-> TRUE]} } :
                    \A item \in o : item.name \in DOMAIN objects},
        in \in {i \in { {}, {[name |-> "Cells"]}, {[name |-> "Nuclei"]} } :
                   \A item \in i : item.name \in DOMAIN objects} }

\* the measured values, in units of 10^-RawDecimals
RawSamples == <<123456789, 349, 250, 50, 99999950, 100000049>>

\* the value measured for a label of a type in a column at a time point
Raw(owner, label, column, t) ==
    LET o == IF owner = "Cells" THEN 0 ELSE 3
        c == IF column = Area THEN 0 ELSE 2
    IN  RawSamples[((o + c + (label - 1) + 2 * (t - 1)) % Len(RawSamples)) + 1]

RawDen == Pow10(RawDecimals - Decimals)

\* segm_objs.measurements: one table per time point
Measurements(so) ==
    [t \in 1..so.ntp |->
        [owner |-> so.name, columns |-> so.columns,
         index |-> IF t \in so.empty THEN {} ELSE so.labels]]

\* data.empty
Empty(table) == table.index = {} \/ table.columns = {}

\* lines 377-381: the output objects get save = True
Saved(desc, name) == \E item \in desc.output : item.name = name

\* every saved object is represented as polygons
AsPolygons_Always(desc, name) == TRUE

\* line 381: represent_as_polygons of an output object is the as_polygons of
\* its declaration
AsPolygons(desc, name) ==
    (CHOOSE item \in desc.output : item.name = name).as_polygons

\* the orders in which a dict with these keys may be iterated
Orders(S) ==
    {f \in [1..Cardinality(S) -> S] :
        \A a, b \in 1..Cardinality(S) : a # b => f[a] # f[b]}

RECURSIVE AddFeatures(_, _, _, _)
\* lines 406-413: a feature for every column of measurements[0]
AddFeatures(d, columns, i, tid) ==
    IF i > Len(columns) THEN d
    ELSE AddFeatures(GetOrCreateFeature(d, columns[i], tid), columns, i + 1, tid)

\* the thresholds without the clamping
ZoomThresholds_Unclamped(maxzoom) ==
    [polygon_threshold |-> maxzoom - 3, centroid_threshold |-> maxzoom - 5]

\* lines 425-431: the thresholds of a segmentation layer
ZoomThresholds(maxzoom) ==
    LET poly_thresh == maxzoom - 3
        polygon_threshold == IF poly_thresh < 0 THEN 0 ELSE poly_thresh
        centroid_thresh == polygon_threshold - 2
    IN  [polygon_threshold |-> polygon_threshold,
         centroid_threshold |-> IF centroid_thresh < 0 THEN 0 ELSE centroid_thresh]

\* the segmentation layers of a type at a time point and a z-plane
LayersOf(d, tid, t, z) ==
    {l \in d.segmentation_layers :
        l.mapobject_type_id = tid /\ l.tpoint = t /\ l.zplane = z}

\* lines 416-431: session.get_or_create(tm.SegmentationLayer, ...) and the
\* assignment of its thresholds
SetLayer(d, tid, t, z) ==
    LET th == ZoomThresholds(d.maxzoom_level_index)
        set(l) == [l EXCEPT !.polygon_threshold = <<th.polygon_threshold>>,
                            !.centroid_threshold = <<th.centroid_threshold>>]
    IN  IF LayersOf(d, tid, t, z) # {}
        THEN [d EXCEPT !.segmentation_layers =
                 {IF l \in LayersOf(d, tid, t, z) THEN set(l) ELSE l : l \in @}]
        ELSE [d EXCEPT !.segmentation_layers = @ \cup
                           {set([id |-> d.serial.segmentation_layers,
                                 mapobject_type_id |-> tid,
                                 tpoint |-> t, zplane |-> z,
                                 polygon_threshold |-> <<>>,
                                 centroid_threshold |-> <<>>])},
                       !.serial.segmentation_layers = @ + 1]

RECURSIVE SetLayers(_, _, _, _)
\* lines 415-431: the loop over segm_objs.iter_planes(); the objects have the
\* time points 0 .. ntp - 1 and the one z-plane 0
SetLayers(d, tid, t, ntp) ==
    IF t >= ntp THEN d
    ELSE SetLayers(SetLayer(d, tid, t, 0), tid, t + 1, ntp)

RECURSIVE FirstLoop(_, _, _, _)
\* lines 389-431: the type, the features and the segmentation layers of
\* every object that is saved
FirstLoop(d, objects, order, i) ==
    IF i > Len(order) THEN d
    ELSE LET so == objects[order[i]]
             d1 == GetOrCreateType(d, so.name)
             tid == TypeByName(d1, so.name).id
             d2 == AddFeatures(d1, SetToSeq(so.columns), 1, tid)
         IN  FirstLoop(SetLayers(d2, tid, 0, so.ntp), objects, order, i + 1)

\* line 405: measurements is assigned in the first loop and read in the
\* second: it holds the tables of the object the first loop visited last
LastMeasurements(objects, order) ==
    IF Len(order) = 0 THEN <<>> ELSE Measurements(objects[Last(order)])

\* Python's == of a str with an object of the pipeline description
StrEqualsItem(str, item) == FALSE

\* line 444: obj_name not in inputs; obj_name is a str, the elements of
\* inputs are the objects of the description (line 310 reads their name)
NotIn(obj_name, inputs) == \A item \in inputs : ~ StrEqualsItem(obj_name, item)

\* feature_ids[obj_name]: the ids of the features of the object's own columns
FeatureId(d, tid, column) ==
    (CHOOSE f \in d.features : f.name = column /\ f.mapobject_type_id = tid
                               /\ ~ f.is_aggregate).id

\* data.rename(columns=column_lut): a column the lookup table knows becomes
\* its feature id, any other column keeps its name
ColumnKey(d, tid, so, column) ==
    IF column \in so.columns THEN IdKey(FeatureId(d, tid, column))
    ELSE NameKey(column)

\* lines 540-560: the feature values of the object, built from measurements
FeatureValueRows(d, tid, so, meas, mapobject_ids) ==
    LET cells == {<<t, label>> \in (1..Len(meas)) \X so.labels :
                     ~ Empty(meas[t]) /\ label \in meas[t].index}
        pos(c) == Cardinality({e \in cells :
                     e[1] < c[1] \/ (e[1] = c[1] /\ e[2] < c[2])})
        keys(t) == {ColumnKey(d, tid, so, column) : column \in meas[t].columns}
        col(t, k) == CHOOSE column \in meas[t].columns :
                         ColumnKey(d, tid, so, column) = k
    IN  { [id |-> d.serial.feature_values + pos(c),
           mapobject_id |-> mapobject_ids[c[2]],
           tpoint |-> c[1] - 1,
           values |-> [k \in keys(c[1]) |->
               <<Round(Raw(meas[c[1]].owner, c[2], col(c[1], k), c[1]), RawDen)>>],
           exact |-> [k \in keys(c[1]) |->
               <<Raw(meas[c[1]].owner, c[2], col(c[1], k), c[1]), RawDen>>]]
          : c \in cells }

\* lines 475-525: the time points (tpoint, from 0) for which a segmentation
\* of the label is added; an empty polygon is skipped, a point never is
Segmentations(so, polygons, label) ==
    {t - 1 : t \in {u \in 1..so.ntp : ~ (polygons /\ <<label, u>> \in so.nopoly)}}

\* lines 457-466: mapobject_ids, the id of the new mapobject of every label
NewMapobjectIds(d, so) ==
    [label \in so.labels |-> d.serial.mapobjects + Rank(label, so.labels)]

\* lines 438-562, one iteration: the prior objects of the type are deleted,
\* then the mapobjects, their segmentations and their feature values are
\* added; mapobject_ids[label] raises KeyError for a label the object does
\* not have
SaveObject(d, so, desc, site, meas) ==
    LET tid == TypeByName(d, so.name).id
        d1 == IF NotIn(so.name, desc.input) THEN DeleteCascade(d, tid, site)
              ELSE d
        mapobject_ids == NewMapobjectIds(d1, so)
        polygons == AsPolygons(desc, so.name)
        new == {[id |-> mapobject_ids[label],
                 mapobject_type_id |-> tid,
                 region |-> {site},
                 npoly |-> IF polygons
                           THEN Cardinality(Segmentations(so, polygons, label))
                           ELSE 0,
                 nsegm |-> Cardinality(Segmentations(so, polygons, label)),
                 segm |-> Segmentations(so, polygons, label),
                 valid |-> label \notin so.invalid] : label \in so.labels}
        d2 == [d1 EXCEPT !.mapobjects = @ \cup new,
                         !.serial.mapobjects = @ + Cardinality(so.labels)]
        keyerror == \E t \in 1..Len(meas) :
                        ~ Empty(meas[t]) /\ ~ (meas[t].index \subseteq so.labels)
        rows == FeatureValueRows(d2, tid, so, meas, mapobject_ids)
    IN  IF keyerror
        THEN [db |-> d2, raised |-> TRUE]
        ELSE [db |-> [d2 EXCEPT !.feature_values = @ \cup rows,
                                !.serial.feature_values = @ + Cardinality(rows)],
              raised |-> FALSE]

RECURSIVE SecondLoop(_, _, _, _, _, _, _)
\* lines 438-562: the loop over objects_to_save, ended by the first exception
SecondLoop(d, objects, desc, site, order, meas, i) ==
    IF i > Len(order) THEN [db |-> d, raised |-> FALSE]
    ELSE LET res == SaveObject(d, objects[order[i]], desc, site, meas)
         IN  IF res.raised THEN res
             ELSE SecondLoop(res.db, objects, desc, site, order, meas, i + 1)

\* _save_pipeline_outputs as a whole
SaveOutputs(d, objects, desc, site, order) ==
    SecondLoop(FirstLoop(d, objects, order, 1), objects, desc, site, order,
               LastMeasurements(objects, order), 1)

\* a store with its description and the order its objects are iterated in
SaveChoices ==
    UNION { UNION { { [objects |-> o, desc |-> ds, order |-> ord] :
                        ord \in Orders({n \in DOMAIN o : Saved(ds, n)}) } :
                    ds \in DescSamples(o) } :
            o \in StoreSamples }

RECURSIVE RunPhase(_, _, _, _)
\* the run jobs of the step: the sites 1..n are saved one after the other
RunPhase(d, choice, n, site) ==
    IF site > n THEN [db |-> d, raised |-> FALSE]
    ELSE LET res == SaveOutputs(d, choice.objects, choice.desc, site, choice.order)
         IN  IF res.raised THEN res ELSE RunPhase(res.db, choice, n, site + 1)

SaveIdle ==
    /\ database = StaticDb(StaticTypes)
    /\ svpc = "idle"
    /\ svObjects = <<>>
    /\ svDesc = [output |-> {}, input |-> {}]
    /\ svSite = 0
    /\ svOrder = <<>>
    /\ svI = 1
    /\ measurements = <<>>
    /\ svPrior = <<>>
    /\ nsaves = 0

\* _save_pipeline_outputs(store) up to line 436: the output objects are
\* marked and their types and features are looked up or created
SaveFirstLoop ==
    /\ svpc \in {"idle", "done", "raised"}
    /\ nsaves < MaxSaves
    /\ \E objects \in StoreSamples, site \in 1..NSites :
       \E desc \in DescSamples(objects) :
       \E order \in Orders({name \in DOMAIN objects : Saved(desc, name)}) :
           /\ svObjects' = objects
           /\ svDesc' = desc
           /\ svSite' = site
           /\ svOrder' = order
           /\ database' = FirstLoop(database, objects, order, 1)
           /\ measurements' = LastMeasurements(objects, order)
           /\ svpc' = IF Len(order) = 0 THEN "done" ELSE "objects"
    /\ svI' = 1
    /\ svPrior' = <<>>
    /\ nsaves' = nsaves + 1
    /\ UNCHANGED nonSaveVars

\* one iteration of the loop over objects_to_save (lines 438-562)
SaveSecondLoop ==
    /\ svpc = "objects"
    /\ LET so == svObjects[svOrder[svI]]
           res == SaveObject(database, so, svDesc, svSite, measurements)
       IN  /\ database' = res.db
           /\ svPrior' = Append(svPrior,
                  [name |-> so.name,
                   deleted |-> NotIn(so.name, svDesc.input),
                   prior |-> {m.id : m \in MapobjectsOfSite(database,
                                  TypeByName(database, so.name).id, svSite)},
                   ids |-> NewMapobjectIds(database, so)])
           /\ IF res.raised
              THEN /\ svpc' = "raised"
                   /\ UNCHANGED svI
              ELSE IF svI < Len(svOrder)
              THEN /\ svI' = svI + 1
                   /\ UNCHANGED svpc
              ELSE /\ svpc' = "done"
                   /\ UNCHANGED svI
    /\ UNCHANGED <<svObjects, svDesc, svSite, svOrder, measurements, nsaves>>
    /\ UNCHANGED nonSaveVars

(***************************************************************************)
(* ImageAnalysisPipelineEngine.run_job: the loop over the units            *)
(***************************************************************************)
\* _save_pipeline_outputs is called whether _run_pipeline returned or raised
PipelineReturned_OrRaised(state) == state \in {"done", "raised"}

\* lines 668-669: _save_pipeline_outputs is called with the store that
\* _run_pipeline returned
PipelineReturned(state) == state = "done"

\* run_job(batch) is entered
RunJob ==
    /\ rpc = "idle"
    /\ rpc' = "start_engines"
    /\ UNCHANGED <<rjSites, si, engines, engineStarts, matlabOk, failing,
                   rjInputs, images, rjErr, loaded, persisted>>
    /\ UNCHANGED <<pipeVars, nonRjVars>>

\* line 661: self.start_engines()
StartEngines ==
    /\ rpc = "start_engines"
    /\ engineStarts' = engineStarts + 1
    /\ IF "Matlab" \in PipelineLanguages
       THEN IF matlabOk
            THEN /\ engines' = StartedEngines(engines)
                 /\ rpc' = IF Len(rjSites) = 0 THEN "done" ELSE "load"
                 /\ UNCHANGED rjErr
            ELSE /\ rpc' = "raised"
                 /\ rjErr' = "ImportError"
                 /\ UNCHANGED engines
       ELSE /\ rpc' = IF Len(rjSites) = 0 THEN "done" ELSE "load"
            /\ UNCHANGED <<engines, rjErr>>
    /\ si' = 1
    /\ UNCHANGED <<rjSites, matlabOk, failing, rjInputs, images, loaded,
                   persisted>>
    /\ UNCHANGED <<pipeVars, nonRjVars>>

\* line 667: store = self._load_pipeline_input(site_id), then line 668 calls
\* _run_pipeline; PipelineDescriptionError (line 287) ends the job
LoadPipelineInput ==
    /\ rpc = "load"
    /\ LET res == LoadChannels(channel_input, illumstats, 1, <<>>)
       IN  /\ images' = images \o [i \in 1..Len(res.names) |->
                                       <<CurrentSite, res.names[i]>>]
           /\ IF res.raised
              THEN /\ rpc' = "raised"
                   /\ rjErr' = "PipelineDescriptionError"
                   /\ UNCHANGED <<loaded, store, ppc, it, handles, execlog>>
              ELSE /\ loaded' = Append(loaded, CurrentSite)
                   /\ store' = StoreOf(Elems(res.names))
                   /\ ppc' = "idle"
                   /\ it' = 1
                   /\ handles' = <<>>
                   /\ execlog' = <<>>
                   /\ rpc' = "run"
                   /\ UNCHANGED rjErr
    /\ UNCHANGED <<pipeline, languages, runlog, plotRequested, plotHandles,
                   figures, bindlog>>
    /\ UNCHANGED <<rjSites, si, engines, engineStarts, matlabOk, failing,
                   rjInputs, persisted>>
    /\ UNCHANGED nonRjVars

\* line 669: self._save_pipeline_outputs(store), then the next site; an
\* exception of _save_pipeline_outputs ends the job
SavePipelineOutputs ==
    /\ rpc = "run"
    /\ PipelineReturned(ppc)
    /\ LET res == SaveOutputs(database, unitOutput[1].objects,
                      unitOutput[1].desc, CurrentSite, unitOutput[1].order)
       IN  /\ database' = res.db
           /\ IF res.raised
              THEN /\ rpc' = "raised"
                   /\ rjErr' = "KeyError"
                   /\ UNCHANGED <<si, persisted>>
              ELSE /\ persisted' = Append(persisted, CurrentSite)
                   /\ UNCHANGED rjErr
                   /\ IF si < Len(rjSites)
                      THEN /\ si' = si + 1
                           /\ rpc' = "load"
                      ELSE /\ rpc' = "done"
                           /\ UNCHANGED si
    /\ ppc' = "none"
    /\ UNCHANGED <<pipeline, store, it, handles, execlog, languages, runlog,
                   plotRequested, plotHandles, figures, bindlog>>
    /\ UNCHANGED <<rjSites, engines, engineStarts, matlabOk, failing, rjInputs,
                   images, loaded>>
    /\ UNCHANGED <<wfVars, batchVars, saveVars, collectVars, stepVars, buildVars,
                   featVars, debugVars>>

\* an exception of _run_pipeline is not handled in the loop of run_job
\* (lines 665-669): it ends the job
RunJobRaised ==
    /\ rpc = "run"
    /\ ppc = "raised"
    /\ rpc' = "raised"
    /\ rjErr' = "Exception"
    /\ ppc' = "none"
    /\ UNCHANGED <<pipeline, store, it, handles, execlog, languages, runlog,
                   plotRequested, plotHandles, figures, bindlog>>
    /\ UNCHANGED <<rjSites, si, engines, engineStarts, matlabOk, failing,
                   rjInputs, images, loaded, persisted>>
    /\ UNCHANGED nonRjVars

(***************************************************************************)
(* ImageAnalysisPipelineEngine.create_debug_run_jobs                       *)
(***************************************************************************)
\* isinstance(cores, int): a value is [type, value]
IsInstanceInt(v) == v.type = "int"

\* the DebugRunJob of a batch with its requested resources
DebugRunJob(b, duration, memory, cores) ==
    [job_id |-> b.site_id,
     requested_walltime |-> duration,
     requested_memory |-> memory,
     requested_cores |-> cores.value]

\* the loop over the batches from position i (from 1): each iteration builds
\* the job, then checks cores, then adds the job; result is [raised, jobs]
RECURSIVE DebugJobsLoop(_, _, _, _, _, _)
DebugJobsLoop(jc, bs, i, duration, memory, cores) ==
    IF i > Len(bs)
    THEN [raised |-> "none", jobs |-> jc]
    ELSE IF ~IsInstanceInt(cores)
    THEN [raised |-> "TypeError", jobs |-> jc]
    ELSE IF ~(cores.value > 0)
    THEN [raised |-> "ValueError", jobs |-> jc]
    ELSE DebugJobsLoop(Append(jc, DebugRunJob(bs[i], duration, memory, cores)),
                       bs, i + 1, duration, memory, cores)

\* the values passed for cores
CoresSamples ==
    { [type |-> "int", value |-> v] : v \in {-1, 0, 1, 2} }
        \cup { [type |-> "float", value |-> v] : v \in {0, 2} }
        \cup { [type |-> "NoneType", value |-> 0] }

\* the arguments of a call
DebugArgs ==
    [batches : SeqsUpTo({[site_id |-> n] : n \in 1..2}, MaxBatches),
     duration : {"00:10:00", "06:00:00"},
     memory : {1000, 3800},
     cores : CoresSamples]

DebugIdle ==
    /\ dbgpc = "idle"
    /\ dbgArgs = <<>>
    /\ job_collection = <<>>
    /\ dbgErr = "none"

\* create_debug_run_jobs(user_name, job_collection, batches, verbosity,
\*                       duration, memory, cores)
CreateDebugRunJobs ==
    /\ dbgpc = "idle"
    /\ LET r == DebugJobsLoop(job_collection, dbgArgs.batches, 1,
                              dbgArgs.duration, dbgArgs.memory, dbgArgs.cores)
       IN  /\ job_collection' = r.jobs
           /\ dbgErr' = r.raised
           /\ dbgpc' = IF r.raised = "none" THEN "returned" ELSE "raised"
    /\ UNCHANGED dbgArgs
    /\ UNCHANGED nonDebugVars

(***************************************************************************)
(* ImageAnalysisPipelineEngine._add_feature                                *)
(***************************************************************************)
\* the rows of features with a name and a mapobject_type_id: the key of the
\* constraint features_name_mapobject_type_id_key
FeaturesWithKey(d, name, tid) ==
    {f \in d.features : f.name = name /\ f.mapobject_type_id = tid}

\* the insert without the ON CONFLICT clause and without the constraint
InsertOnConflict_Unconstrained(d, name, tid, is_aggregate) ==
    [db |-> [d EXCEPT !.features = @ \cup
                          {[id |-> d.serial.features, name |-> name,
                            mapobject_type_id |-> tid,
                            is_aggregate |-> is_aggregate]},
                      !.serial.features = @ + 1],
     record |-> <<d.serial.features>>]

\* lines 893-904: INSERT INTO features ... ON CONFLICT ON CONSTRAINT
\* features_name_mapobject_type_id_key DO NOTHING RETURNING id, and
\* conn.fetchone(): the new row's id, or None (<<>>) if a row with the key
\* exists
InsertOnConflict(d, name, tid, is_aggregate) ==
    IF FeaturesWithKey(d, name, tid) # {}
    THEN [db |-> d, record |-> <<>>]
    ELSE [db |-> [d EXCEPT !.features = @ \cup
                              {[id |-> d.serial.features, name |-> name,
                                mapobject_type_id |-> tid,
                                is_aggregate |-> is_aggregate]},
                           !.serial.features = @ + 1],
          record |-> <<d.serial.features>>]

\* lines 906-914: SELECT id FROM features WHERE name = ... AND
\* mapobject_type_id = ..., and conn.fetchone(): the id of a row with the
\* key, or None (<<>>)
SelectId(d, name, tid) ==
    IF FeaturesWithKey(d, name, tid) = {} THEN <<>>
    ELSE <<(CHOOSE f \in FeaturesWithKey(d, name, tid) : TRUE).id>>

\* _add_feature called with no other connection at work: the id of the
\* feature with that key, which is inserted if there is none
AddFeature(d, name, tid, is_aggregate) ==
    IF FeaturesWithKey(d, name, tid) = {}
    THEN [db |-> InsertOnConflict(d, name, tid, is_aggregate).db,
          id |-> InsertOnConflict(d, name, tid, is_aggregate).record[1]]
    ELSE [db |-> d, id |-> SelectId(d, name, tid)[1]]

\* the connections that call _add_feature
Callers == 1..2

\* the arguments of the calls: aggregate features of the sites
AddFeatureArgs ==
    [name : {Area \o <<"Cells", "Min">>, <<"Cells", "Count">>},
     mapobject_type_id : {SiteType.id},
     is_aggregate : BOOLEAN]

FeatIdle ==
    /\ afpc = [c \in Callers |-> "idle"]
    /\ afArgs = [c \in Callers |-> <<>>]
    /\ afReturned = {}
    /\ afCalls = [c \in Callers |-> 0]

\* the call has returned id
Return(c, id) ==
    /\ afpc' = [afpc EXCEPT ![c] = "idle"]
    /\ afReturned' = afReturned \cup
           {[caller |-> c, name |-> afArgs[c][1].name,
             mapobject_type_id |-> afArgs[c][1].mapobject_type_id, id |-> id]}

\* a connection calls _add_feature(conn, name, mapobject_type_id, is_aggregate)
AddFeatureCall(c) ==
    /\ afpc[c] = "idle"
    /\ afCalls[c] < MaxAddCalls
    /\ \E args \in AddFeatureArgs : afArgs' = [afArgs EXCEPT ![c] = <<args>>]
    /\ afpc' = [afpc EXCEPT ![c] = "insert"]
    /\ afCalls' = [afCalls EXCEPT ![c] = @ + 1]
    /\ UNCHANGED <<database, afReturned>>
    /\ UNCHANGED nonFeatVars

\* lines 893-905: the INSERT statement; with a record the call returns its id
\* (line 915)
AddFeatureInsert(c) ==
    /\ afpc[c] = "insert"
    /\ LET a == afArgs[c][1]
           ins == InsertOnConflict(database, a.name, a.mapobject_type_id,
                                   a.is_aggregate)
       IN  /\ database' = ins.db
           /\ IF ins.record # <<>>
              THEN Return(c, ins.record[1])
              ELSE /\ afpc' = [afpc EXCEPT ![c] = "select"]
                   /\ UNCHANGED afReturned
    /\ UNCHANGED <<afArgs, afCalls>>
    /\ UNCHANGED nonFeatVars

\* lines 905-915: without a record the SELECT statement; record.id of None
\* raises AttributeError
AddFeatureSelect(c) ==
    /\ afpc[c] = "select"
    /\ LET a == afArgs[c][1]
           record == SelectId(database, a.name, a.mapobject_type_id)
       IN  IF record # <<>>
           THEN Return(c, record[1])
           ELSE /\ afpc' = [afpc EXCEPT ![c] = "raised"]
                /\ UNCHANGED afReturned
    /\ UNCHANGED <<database, afArgs, afCalls>>
    /\ UNCHANGED nonFeatVars

(***************************************************************************)
(* ImageAnalysisPipelineEngine.collect_job_output                          *)
(***************************************************************************)
\* parent_mapobject_ref_types
Levels == <<"Site", "Well", "Plate">>

\* the keys of statistics, in the order they are iterated
Statistics == <<"Min", "Max", "Sum", "Mean", "Count">>

\* the elements of a set of rows or objects, ordered by id
RECURSIVE SortById(_)
SortById(S) ==
    IF S = {} THEN <<>>
    ELSE LET x == CHOOSE x \in S : \A y \in S : x.id <= y.id
         IN  <<x>> \o SortById(S \ {x})

RECURSIVE Flatten(_)
Flatten(ss) == IF Len(ss) = 0 THEN <<>> ELSE Head(ss) \o Flatten(Tail(ss))

\* tm.FeatureValues.add(c, tm.FeatureValues(mapobject_id, values, tpoint))
AddFeatureValues(d, mapobject_id, values, exact, tpoint) ==
    [d EXCEPT !.feature_values = @ \cup
                  {[id |-> d.serial.feature_values, mapobject_id |-> mapobject_id,
                    tpoint |-> tpoint, values |-> values, exact |-> exact]},
              !.serial.feature_values = @ + 1]

\* the query of _aggregate and _aggregate_aggregates: the feature values of
\* the objects of a type, once for every polygon of the object that
\* intersects the reference polygon
QueryRows(d, tid, region) ==
    { [id |-> v.id, tpoint |-> v.tpoint, values |-> v.values,
       mult |-> (CHOOSE m \in d.mapobjects : m.id = v.mapobject_id).npoly]
      : v \in {w \in d.feature_values :
                \E m \in d.mapobjects :
                    /\ m.id = w.mapobject_id
                    /\ m.mapobject_type_id = tid
                    /\ m.npoly > 0
                    /\ m.region \cap region # {}} }

\* data.rename(columns=feature_map): the name of the column of a key
ColumnName(k, feature_map) ==
    IF k.name # <<>> THEN k.name
    ELSE IF \E e \in feature_map : e[1] = k.id
    THEN (CHOOSE e \in feature_map : e[1] = k.id)[2]
    ELSE <<ToString(k.id)>>

\* the columns of pd.DataFrame(record.data) after the renaming
Columns(group, feature_map) ==
    {ColumnName(k, feature_map) : k \in UNION {DOMAIN e.values : e \in group}}

\* one column of the data frame: a value for every row, NaN where the row
\* has no such key
ColumnOf(group, column, feature_map) ==
    { [row |-> e.id, mult |-> e.mult,
       val |-> IF \E k \in DOMAIN e.values : ColumnName(k, feature_map) = column
               THEN e.values[CHOOSE k \in DOMAIN e.values :
                                 ColumnName(k, feature_map) = column]
               ELSE NaN]
      : e \in group }

RECURSIVE WeightedSum(_)
WeightedSum(col) ==
    IF col = {} THEN 0
    ELSE LET e == CHOOSE e \in col : TRUE
         IN  e.val[1] * e.mult + WeightedSum(col \ {e})

RECURSIVE Length(_)
Length(col) ==
    IF col = {} THEN 0
    ELSE LET e == CHOOSE e \in col : TRUE
         IN  e.mult + Length(col \ {e})

\* np.round(num / den, 6) together with the quotient it was rounded from
Rounded(num, den) == [val |-> <<Round(num, den)>>, exact |-> <<num, den>>]

NotANumber == [val |-> NaN, exact |-> <<>>]

\* statistics of _aggregate applied to vals.values
Statistic(stat, col) ==
    LET nums == {e \in col : e.val # NaN}
    IN  CASE stat = "Min" ->
                 IF nums = {} THEN NotANumber
                 ELSE Rounded(SetMin({e.val[1] : e \in nums}), 1)
          [] stat = "Max" ->
                 IF nums = {} THEN NotANumber
                 ELSE Rounded(SetMax({e.val[1] : e \in nums}), 1)
          [] stat = "Sum" -> Rounded(WeightedSum(nums), 1)
          [] stat = "Mean" ->
                 IF nums = {} THEN NotANumber
                 ELSE Rounded(WeightedSum(nums), Length(nums))
          [] stat = "Count" -> Rounded(Length(col) * Pow10(Decimals), 1)

\* the sum is taken whatever the name of the column ends with
StatisticOfAggregates_Sum(stat, col) == Statistic("Sum", col)

\* statistics of _aggregate_aggregates: 'Count' is np.sum, which is NaN as
\* soon as one value is
StatisticOfAggregates(stat, col) ==
    IF stat = "Count"
    THEN IF \E e \in col : e.val = NaN THEN NotANumber
         ELSE Rounded(WeightedSum(col), 1)
    ELSE Statistic(stat, col)

\* lines 705-713: the name of the aggregate feature, '_' between the parts
AggregateName(stat, feature_name, type_name) ==
    IF stat = "count"
    THEN <<type_name, stat>>
    ELSE feature_name \o <<type_name, stat>>

RECURSIVE AddCells(_, _, _, _)
\* the features of one record are added and their values are put into
\* agg_values and agg_features
AddCells(acc, cells, i, ref_tid) ==
    IF i > Len(cells) THEN acc
    ELSE LET a == AddFeature(acc.db, cells[i].name, ref_tid, TRUE)
         IN  AddCells([db |-> a.db,
                       agg_values |-> (IdKey(a.id) :> cells[i].res.val)
                                          @@ acc.agg_values,
                       agg_exact |-> (IdKey(a.id) :> cells[i].res.exact)
                                          @@ acc.agg_exact,
                       agg_features |-> acc.agg_features
                                          \cup {<<a.id, cells[i].name>>}],
                      cells, i + 1, ref_tid)

RECURSIVE AddRecords(_, _, _, _, _)
\* the loop over the records of the query: agg_values and agg_features are
\* created once, before the loop
AddRecords(acc, records, i, ref_tid, ref_id) ==
    IF i > Len(records) THEN acc
    ELSE LET a == AddCells(acc, records[i].cells, 1, ref_tid)
         IN  AddRecords([a EXCEPT !.db = AddFeatureValues(a.db, ref_id,
                                      a.agg_values, a.agg_exact,
                                      records[i].tpoint)],
                        records, i + 1, ref_tid, ref_id)

\* the time points of the rows, in ascending order
RECURSIVE Ascend(_)
Ascend(S) ==
    IF S = {} THEN <<>>
    ELSE <<SetMin(S)>> \o Ascend(S \ {SetMin(S)})

NoAggregates(d) ==
    [db |-> d, agg_values |-> <<>>, agg_exact |-> <<>>, agg_features |-> {}]

\* _aggregate: five statistics of every column, per time point
Aggregate(d, feature_map, tid, type_name, ref_tid, ref_id, region) ==
    LET rows == QueryRows(d, tid, region)
        ts == Ascend({e.tpoint : e \in rows})
        group(t) == {e \in rows : e.tpoint = t}
        columns(t) == SetToSeq(Columns(group(t), feature_map))
        cellsOf(t, stat) ==
            [c \in 1..Len(columns(t)) |->
                [name |-> AggregateName(stat, columns(t)[c], type_name),
                 res |-> Statistic(stat,
                             ColumnOf(group(t), columns(t)[c], feature_map))]]
        records == [i \in 1..Len(ts) |->
                       [tpoint |-> ts[i],
                        cells |-> Flatten([s \in 1..Len(Statistics) |->
                                      cellsOf(ts[i], Statistics[s])])]]
    IN  AddRecords(NoAggregates(d), records, 1, ref_tid, ref_id)

\* re.search(r'_([^_]+)$', feature_name).group(1) finds the part after the
\* last '_' and statistics[stat_name] has the function for it
HasStatistic(feature_name) ==
    /\ Len(feature_name) > 1
    /\ \E s \in 1..Len(Statistics) : Statistics[s] = Last(feature_name)

\* _aggregate_aggregates: the statistic the name of a column ends with, per
\* time point
AggregateAggregates(d, feature_map, tid, ref_tid, ref_id, region) ==
    LET rows == QueryRows(d, tid, region)
        ts == Ascend({e.tpoint : e \in rows})
        group(t) == {e \in rows : e.tpoint = t}
        columns(t) == SetToSeq(Columns(group(t), feature_map))
        records == [i \in 1..Len(ts) |->
                       [tpoint |-> ts[i],
                        cells |-> [c \in 1..Len(columns(ts[i])) |->
                            [name |-> columns(ts[i])[c],
                             res |-> StatisticOfAggregates(
                                         Last(columns(ts[i])[c]),
                                         ColumnOf(group(ts[i]), columns(ts[i])[c],
                                                  feature_map))]]]]
    IN  IF \E e \in rows : \E k \in DOMAIN e.values :
               ~ HasStatistic(ColumnName(k, feature_map))
        THEN [raised |-> TRUE, res |-> NoAggregates(d)]
        ELSE [raised |-> FALSE,
              res |-> AddRecords(NoAggregates(d), records, 1, ref_tid, ref_id)]

\* lines 792-797: the ids of the types with ref_type Plate, Well or Site
HierarchyTypeIds(d) ==
    {t.id : t \in {u \in d.mapobject_types :
                      u.ref_type \in {"Plate", "Well", "Site"}}}

\* every type is taken for a leaf type
LeafTypes_All(d) == d.mapobject_types

\* lines 806-810: the types with ref_type == None
LeafTypes(d) == {t \in d.mapobject_types : t.ref_type = "None"}

\* tm.Feature.delete_cascade(connection, mapobject_type_id=mid): the features
\* of the type go, and with them the values stored under them
DeleteFeatures(d, tids) ==
    LET gone == {IdKey(f.id) : f \in {g \in d.features : g.mapobject_type_id \in tids}}
        strip(v) == [v EXCEPT !.values = [k \in DOMAIN v.values \ gone |-> v.values[k]],
                              !.exact = [k \in DOMAIN v.exact \ gone |-> v.exact[k]]]
    IN  [d EXCEPT !.features = {f \in @ : f.mapobject_type_id \notin tids},
                  !.feature_values =
                      {strip(v) : v \in {w \in @ : DOMAIN w.values \ gone # {}
                                                   \/ DOMAIN w.values = {}}}]

\* the clean-up without the deletion of the features of the hierarchy types
Cleanup_KeepFeatures(d) ==
    LET d1 == DeleteMapobjects(d, {m \in d.mapobjects : ~ m.valid})
    IN  DeleteMapobjects(d1, {m \in d1.mapobjects : m.nsegm = 0})

\* lines 799-803
Cleanup(d) ==
    LET d1 == DeleteMapobjects(d, {m \in d.mapobjects : ~ m.valid})
        d2 == DeleteMapobjects(d1, {m \in d1.mapobjects : m.nsegm = 0})
    IN  DeleteFeatures(d2, HierarchyTypeIds(d2))

\* lines 813-820: feature_lut[mapobject_type_name] = {str(id): name}
FeatureMap(d, tid) ==
    {<<f.id, f.name>> : f \in {g \in d.features : g.mapobject_type_id = tid}}

\* the types session.query(tm.MapobjectType.id).filter_by(ref_type=ref_type)
\* finds
RefTypes(d, ref_type) == {t \in d.mapobject_types : t.ref_type = ref_type}

\* Query.one()
OneError(S) ==
    IF S = {} THEN "NoResultFound"
    ELSE IF Cardinality(S) > 1 THEN "MultipleResultsFound"
    ELSE "none"

\* the first level whose lookup raises (0: none does)
FirstFailure(d) ==
    IF \E l \in 1..Len(Levels) : OneError(RefTypes(d, Levels[l])) # "none"
    THEN SetMin({l \in 1..Len(Levels) : OneError(RefTypes(d, Levels[l])) # "none"})
    ELSE 0

\* ref_id_lut[ref_type]
RefTypeId(d, ref_type) == (CHOOSE t \in RefTypes(d, ref_type) : TRUE).id

\* ref_lut[ref_type]: the objects of the reference type that have a polygon
RefObjects(d, ref_type) ==
    SortById({m \in d.mapobjects :
                 m.mapobject_type_id = RefTypeId(d, ref_type) /\ m.nsegm > 0})

\* lines 846-886: the calls of _aggregate and _aggregate_aggregates, in the
\* order of the loops
Calls(d) ==
    LET leafs == SortById(LeafTypes(d))
        refs(l) == RefObjects(d, Levels[l])
        calls(l, r) ==
            IF Levels[l] = "Site"
            THEN [t \in 1..Len(leafs) |->
                     [level |-> l, ref |-> refs(l)[r],
                      of |-> <<[id |-> leafs[t].id, name |-> leafs[t].name,
                                features |-> FeatureMap(d, leafs[t].id)]>>]]
            ELSE <<[level |-> l, ref |-> refs(l)[r], of |-> <<>>]>>
    IN  Flatten([l \in 1..Len(Levels) |->
            Flatten([r \in 1..Len(refs(l)) |-> calls(l, r)])])

\* the aggregate features and the aggregate feature values in the database
AggregateState(d) ==
    LET rows == {v \in d.feature_values :
                    \E m \in d.mapobjects :
                        /\ m.id = v.mapobject_id
                        /\ m.mapobject_type_id \in HierarchyTypeIds(d)}
    IN  [features |-> {f \in d.features : f.is_aggregate},
         values |-> {[mapobject_id |-> v.mapobject_id, tpoint |-> v.tpoint,
                      values |-> v.values] : v \in rows},
         records |-> Cardinality(rows)]

NoNewFeatures == [l \in 1..Len(Levels) |-> {}]

CollectIdle ==
    /\ cpc = "idle"
    /\ cerr = "none"
    /\ ref_id_lut = <<>>
    /\ work = <<>>
    /\ new_features = NoNewFeatures
    /\ aggregated = {}
    /\ ncollects = 0
    /\ firstRun = <<>>

\* lines 783-790: segm_layer.calculate_zoom_thresholds(maxzoom) for every
\* segmentation layer: thresholds from the maximum zoom level, negative
\* results clamped to zero
RecomputeThresholds(d) ==
    LET th == ZoomThresholds(d.maxzoom_level_index)
    IN  [d EXCEPT !.segmentation_layers =
            {[l EXCEPT !.polygon_threshold = <<th.polygon_threshold>>,
                       !.centroid_threshold = <<th.centroid_threshold>>] : l \in @}]

\* collect_job_output(batch), lines 771-803: the thresholds and the clean-up
CollectCleanup ==
    /\ cpc \in {"idle", "done"}
    /\ ncollects < MaxCollects
    /\ database' = Cleanup(RecomputeThresholds(database))
    /\ cpc' = "lookup"
    /\ cerr' = "none"
    /\ ref_id_lut' = <<>>
    /\ work' = <<>>
    /\ new_features' = NoNewFeatures
    /\ aggregated' = {}
    /\ UNCHANGED <<ncollects, firstRun>>
    /\ UNCHANGED nonCollectVars

\* lines 805-842: the leaf types with their features and, for every level,
\* the reference type and its objects; Query.one() raises when there is not
\* exactly one reference type
CollectLookup ==
    /\ cpc = "lookup"
    /\ IF FirstFailure(database) # 0
       THEN /\ cpc' = "raised"
            /\ cerr' = OneError(RefTypes(database, Levels[FirstFailure(database)]))
            /\ UNCHANGED <<ref_id_lut, work>>
       ELSE /\ ref_id_lut' = [l \in 1..Len(Levels) |-> RefTypeId(database, Levels[l])]
            /\ work' = Calls(database)
            /\ cpc' = "aggregate"
            /\ UNCHANGED cerr
    /\ UNCHANGED <<database, new_features, aggregated, ncollects, firstRun>>
    /\ UNCHANGED nonCollectVars

\* a level is aggregated over itself
SourceLevel_Same(l) == l

\* lines 872-874: the level below, idx = index(ref_type_name) - 1
SourceLevel(l) == l - 1

\* lines 846-886, one call of _aggregate or _aggregate_aggregates
CollectAggregate ==
    /\ cpc = "aggregate"
    /\ Len(work) > 0
    /\ LET call == Head(work)
           l == call.level
           out == IF Levels[l] = "Site"
                  THEN [raised |-> FALSE,
                        res |-> Aggregate(database, call.of[1].features,
                                    call.of[1].id, call.of[1].name,
                                    ref_id_lut[l], call.ref.id, call.ref.region)]
                  ELSE AggregateAggregates(database, new_features[SourceLevel(l)],
                           ref_id_lut[SourceLevel(l)], ref_id_lut[l],
                           call.ref.id, call.ref.region)
       IN  /\ database' = out.res.db
           /\ new_features' = [new_features EXCEPT ![l] = @ \cup out.res.agg_features]
           /\ aggregated' = aggregated \cup
                  {[level |-> l,
                    over |-> IF Levels[l] = "Site" THEN call.of[1].id
                             ELSE ref_id_lut[SourceLevel(l)]]}
           /\ IF out.raised
              THEN /\ cpc' = "raised"
                   /\ cerr' = "AttributeError"
                   /\ UNCHANGED <<ncollects, firstRun>>
              ELSE IF Len(work) > 1
              THEN UNCHANGED <<cpc, cerr, ncollects, firstRun>>
              ELSE /\ cpc' = "done"
                   /\ ncollects' = ncollects + 1
                   /\ firstRun' = IF ncollects = 0
                                  THEN <<AggregateState(out.res.db)>>
                                  ELSE firstRun
                   /\ UNCHANGED cerr
    /\ work' = Tail(work)
    /\ UNCHANGED ref_id_lut
    /\ UNCHANGED nonCollectVars

(***************************************************************************)
(* The jobs of one step: the run jobs, then the collect job                *)
(***************************************************************************)
\* some run job has finished
RunPhaseFinished_Any(js) ==
    \E jb \in 1..Len(js) : js[jb].state \in {"done", "failed"}

\* the barrier of the step: every run job has finished
RunPhaseFinished(js) ==
    \A jb \in 1..Len(js) : js[jb].state \in {"done", "failed"}

StepIdle ==
    /\ jobs = <<>>
    /\ stepChoice = <<>>

\* a run job is started: run_job(batch) is entered
JobStart ==
    \E jb \in 1..Len(jobs) :
        /\ jobs[jb].state = "pending"
        /\ jobs' = [jobs EXCEPT ![jb].state = "running"]
        /\ UNCHANGED <<database, stepChoice, collectVars>>
        /\ UNCHANGED nonStepVars

\* run_job, lines 665-669, one iteration: the next site of the batch is
\* loaded, run and saved; an exception ends the job
JobSaveSite ==
    \E jb \in 1..Len(jobs) :
        /\ jobs[jb].state = "running"
        /\ LET job == jobs[jb]
               site == job.site_ids[job.saved + 1]
               res == SaveOutputs(database, stepChoice[1].objects,
                          stepChoice[1].desc, site, stepChoice[1].order)
           IN  /\ database' = res.db
               /\ jobs' = [jobs EXCEPT ![jb] =
                      [site_ids |-> job.site_ids,
                       state |-> IF res.raised THEN "failed"
                                 ELSE IF job.saved + 1 = Len(job.site_ids)
                                 THEN "done" ELSE "running",
                       saved |-> IF res.raised THEN job.saved
                                 ELSE job.saved + 1]]
        /\ UNCHANGED <<stepChoice, collectVars>>
        /\ UNCHANGED nonStepVars

\* the collect job is submitted once the run phase has finished
SubmitCollect ==
    /\ cpc = "unsubmitted"
    /\ RunPhaseFinished(jobs)
    /\ cpc' = "idle"
    /\ UNCHANGED <<cerr, ref_id_lut, work, new_features, aggregated,
                   ncollects, firstRun>>
    /\ UNCHANGED <<database, stepVars>>
    /\ UNCHANGED nonStepVars

(***************************************************************************)
(* ClusterWorkflowManager                                                  *)
(***************************************************************************)
Paths == {"f1", "f2"}

\* A step command of the workflow description together with what its command
\* line interface does when the step is prepared:
\*   req   : cli_class_inst.required_inputs
\*   out   : cli_class_inst.expected_outputs
\*   fault : "none"   - preparation runs through
\*           "import" - importlib.import_module raises ImportError (line 87/92)
\*           "parse"  - parser.parse_args rejects the command and exits:
\*                      SystemExit, which is not an Exception (line 97)
\*           "submit" - building the submit command raises, e.g. 'init' is not
\*                      in the command: ValueError (line 120)
StepCommands ==
    { [name |-> "metaextract", req |-> {},           out |-> {"f1"}, fault |-> "none"],
      [name |-> "imextract",   req |-> {"f1"},       out |-> {"f2"}, fault |-> "none"],
      [name |-> "align",       req |-> {"f1", "f2"}, out |-> {},     fault |-> "none"],
      [name |-> "nomodule",    req |-> {},           out |-> {},     fault |-> "import"],
      [name |-> "badargs",     req |-> {},           out |-> {},     fault |-> "parse"],
      [name |-> "noinit",      req |-> {},           out |-> {"f2"}, fault |-> "submit"] }

AllExist(paths, files) == paths \subseteq files

\* gc3libs Run.State values used by the manager
RUNNING == "RUNNING"
TERMINATED == "TERMINATED"
STOPPED == "STOPPED"
TerminalStates == {TERMINATED, STOPPED}

\* the workflow_description property reads the file on every access
workflow_description == descFile

\* _create_jobs_for_step without the check of the required inputs
CreateJobsForStep_NoInputCheck(step, index, eo, files) ==
    IF step.fault = "import"
    THEN [raised |-> "Exception", expected_outputs |-> eo, jobs |-> <<>>]
    ELSE IF step.fault = "parse"
    THEN [raised |-> "SystemExit", expected_outputs |-> eo, jobs |-> <<>>]
    ELSE IF step.fault = "submit"
    THEN [raised |-> "Exception", expected_outputs |-> Append(eo, step.out),
          jobs |-> <<>>]
    ELSE [raised |-> "none", expected_outputs |-> Append(eo, step.out),
          jobs |-> <<[index |-> index, name |-> step.name]>>]

\* _create_jobs_for_step: result is [raised, expected_outputs, jobs]
\*   raised: "none" | "Exception" | "SystemExit"
CreateJobsForStep(step, index, eo, files) ==
    IF step.fault = "import"
    THEN [raised |-> "Exception", expected_outputs |-> eo, jobs |-> <<>>]
    ELSE IF step.fault = "parse"
    THEN [raised |-> "SystemExit", expected_outputs |-> eo, jobs |-> <<>>]
    ELSE IF ~AllExist(step.req, files)
    THEN [raised |-> "Exception", expected_outputs |-> eo, jobs |-> <<>>]
    ELSE IF step.fault = "submit"
    THEN [raised |-> "Exception", expected_outputs |-> Append(eo, step.out),
          jobs |-> <<>>]
    ELSE [raised |-> "none", expected_outputs |-> Append(eo, step.out),
          jobs |-> <<[index |-> index, name |-> step.name]>>]

\* _add_step without the check of the previous step's expected outputs
AddStep_NoOutputCheck(index, desc, ts, eo, files) ==
    IF ~(index < Len(desc))
    THEN [raised |-> "Exception", tasks |-> ts, expected_outputs |-> eo]
    ELSE LET r == CreateJobsForStep(At(desc, index), index, eo, files)
         IN  [raised |-> r.raised,
              tasks |-> ts \o r.jobs,
              expected_outputs |-> r.expected_outputs]

\* _add_step: result is [raised, tasks, expected_outputs]
AddStep(index, desc, ts, eo, files) ==
    IF index > 0 /\ ~AllExist(Last(eo), files)
    THEN [raised |-> "Exception", tasks |-> ts, expected_outputs |-> eo]
    ELSE IF ~(index < Len(desc))
    THEN [raised |-> "Exception", tasks |-> ts, expected_outputs |-> eo]
    ELSE LET r == CreateJobsForStep(At(desc, index), index, eo, files)
         IN  [raised |-> r.raised,
              tasks |-> ts \o r.jobs,
              expected_outputs |-> r.expected_outputs]

\* SequentialTaskCollection.next of gc3libs: TERMINATED after the last task of
\* the collection, RUNNING otherwise
SuperNext(done, ts) == IF done = Len(ts) - 1 THEN TERMINATED ELSE RUNNING

\* an end state that reports a halt whatever the flag says
EndState_Stopped(stop) == STOPPED

\* the state returned when the machine ends
EndState(stop) == IF stop THEN STOPPED ELSE TERMINATED

\* the range check of next, off by one
HasNextStep_OffByOne(done, desc) == done + 2 < Len(desc)

\* the range check of next
HasNextStep(done, desc) == done + 1 < Len(desc)

\* next whose except clause forgets the exit code
NextResult_NoExitcode(done, desc, ts, eo, files, stop, ec) ==
    LET a == IF HasNextStep(done, desc)
             THEN AddStep(done + 1, desc, ts, eo, files)
             ELSE [raised |-> "none", tasks |-> ts, expected_outputs |-> eo]
    IN  IF a.raised = "Exception"
        THEN [ret |-> EndState(stop), exitcode |-> ec,
              tasks |-> a.tasks, expected_outputs |-> a.expected_outputs]
        ELSE IF a.raised = "SystemExit"
        THEN [ret |-> "raised", exitcode |-> ec,
              tasks |-> a.tasks, expected_outputs |-> a.expected_outputs]
        ELSE LET state == SuperNext(done, a.tasks)
             IN  [ret |-> IF state = TERMINATED THEN EndState(stop) ELSE state,
                  exitcode |-> IF state = TERMINATED THEN <<0>> ELSE ec,
                  tasks |-> a.tasks, expected_outputs |-> a.expected_outputs]

\* next: result is [ret, exitcode, tasks, expected_outputs]
NextResult(done, desc, ts, eo, files, stop, ec) ==
    LET a == IF HasNextStep(done, desc)
             THEN AddStep(done + 1, desc, ts, eo, files)
             ELSE [raised |-> "none", tasks |-> ts, expected_outputs |-> eo]
    IN  IF a.raised = "Exception"
        THEN [ret |-> EndState(stop), exitcode |-> <<0>>,
              tasks |-> a.tasks, expected_outputs |-> a.expected_outputs]
        ELSE IF a.raised = "SystemExit"
        THEN [ret |-> "raised", exitcode |-> ec,
              tasks |-> a.tasks, expected_outputs |-> a.expected_outputs]
        ELSE LET state == SuperNext(done, a.tasks)
             IN  [ret |-> IF state = TERMINATED THEN EndState(stop) ELSE state,
                  exitcode |-> IF state = TERMINATED THEN <<0>> ELSE ec,
                  tasks |-> a.tasks, expected_outputs |-> a.expected_outputs]

\* ClusterWorkflowManager.__init__
Construct ==
    /\ mgr = "none"
    /\ LET a == AddStep(0, workflow_description, <<>>, <<>>, fs)
       IN  /\ mgr' = IF a.raised = "none" THEN "live" ELSE "raised"
           /\ tasks' = a.tasks
           /\ expected_outputs' = a.expected_outputs
    /\ stopped' = FALSE
    /\ readAtStart' = workflow_description
    /\ UNCHANGED <<descFile, fs, exitcode, ret, lastDone, ncalls, inorder>>
    /\ UNCHANGED nonWfVars

\* ClusterWorkflowManager.next(done)
NextCall(done) ==
    /\ mgr = "live"
    /\ ncalls < MaxCalls
    /\ LET r == NextResult(done, workflow_description, tasks, expected_outputs,
                           fs, stopped, exitcode)
       IN  /\ ret' = r.ret
           /\ exitcode' = r.exitcode
           /\ tasks' = r.tasks
           /\ expected_outputs' = r.expected_outputs
           /\ inorder' = (inorder /\ done = ncalls
                          /\ (HasNextStep(done, workflow_description)
                                => Len(r.tasks) = Len(tasks) + 1))
    /\ lastDone' = done
    /\ ncalls' = ncalls + 1
    /\ UNCHANGED <<descFile, readAtStart, fs, mgr, stopped>>
    /\ UNCHANGED nonWfVars

\* a step's jobs write an output file, or somebody deletes a file
FsCreate(p) ==
    /\ p \notin fs
    /\ fs' = fs \cup {p}
    /\ UNCHANGED <<descFile, readAtStart, mgr, tasks, expected_outputs, stopped,
                   exitcode, ret, lastDone, ncalls, inorder>>
    /\ UNCHANGED nonWfVars

FsDelete(p) ==
    /\ p \in fs
    /\ fs' = fs \ {p}
    /\ UNCHANGED <<descFile, readAtStart, mgr, tasks, expected_outputs, stopped,
                   exitcode, ret, lastDone, ncalls, inorder>>
    /\ UNCHANGED nonWfVars

\* next when the workflow file is rewritten between the range check
\* (line 153) and the lookup of the step in _add_step (line 135): first and
\* second are what the two reads of the workflow_description property return
NextResultOfReads(done, first, second, ts, eo, files, stop, ec) ==
    LET a == IF HasNextStep(done, first)
             THEN AddStep(done + 1, second, ts, eo, files)
             ELSE [raised |-> "none", tasks |-> ts, expected_outputs |-> eo]
    IN  IF a.raised = "Exception"
        THEN [ret |-> EndState(stop), exitcode |-> <<0>>,
              tasks |-> a.tasks, expected_outputs |-> a.expected_outputs]
        ELSE IF a.raised = "SystemExit"
        THEN [ret |-> "raised", exitcode |-> ec,
              tasks |-> a.tasks, expected_outputs |-> a.expected_outputs]
        ELSE LET state == SuperNext(done, a.tasks)
             IN  [ret |-> IF state = TERMINATED THEN EndState(stop) ELSE state,
                  exitcode |-> IF state = TERMINATED THEN <<0>> ELSE ec,
                  tasks |-> a.tasks, expected_outputs |-> a.expected_outputs]

\* somebody rewrites the workflow file, once, while the manager is live
EditDescription(new) ==
    /\ mgr = "live"
    /\ descFile = readAtStart
    /\ new # descFile
    /\ descFile' = new
    /\ UNCHANGED <<readAtStart, fs, mgr, tasks, expected_outputs, stopped,
                   exitcode, ret, lastDone, ncalls, inorder>>
    /\ UNCHANGED nonWfVars

\* ClusterWorkflowManager.next(done) while somebody rewrites the workflow
\* file between the two reads of the call
NextCallOverEdit(done, new) ==
    /\ mgr = "live"
    /\ ncalls < MaxCalls
    /\ descFile = readAtStart
    /\ new # descFile
    /\ descFile' = new
    /\ LET r == NextResultOfReads(done, workflow_description, new, tasks,
                                  expected_outputs, fs, stopped, exitcode)
       IN  /\ ret' = r.ret
           /\ exitcode' = r.exitcode
           /\ tasks' = r.tasks
           /\ expected_outputs' = r.expected_outputs
           /\ inorder' = (inorder /\ done = ncalls
                          /\ (HasNextStep(done, workflow_description)
                                => Len(r.tasks) = Len(tasks) + 1))
    /\ lastDone' = done
    /\ ncalls' = ncalls + 1
    /\ UNCHANGED <<readAtStart, fs, mgr, stopped>>
    /\ UNCHANGED nonWfVars

\* no manager exists and no workflow file is read
WfIdle ==
    /\ descFile = <<>>
    /\ readAtStart = <<>>
    /\ fs = {}
    /\ mgr = "none"
    /\ tasks = <<>>
    /\ expected_outputs = <<>>
    /\ stopped = FALSE
    /\ exitcode = <<>>
    /\ ret = "none"
    /\ lastDone = -1
    /\ ncalls = 0
    /\ inorder = TRUE

WfInit ==
    /\ BuildIdle
    /\ FeatIdle
    /\ DebugIdle
    /\ BatchIdle
    /\ PipeIdle
    /\ RjIdle
    /\ SaveIdle
    /\ CollectIdle
    /\ StepIdle
    /\ descFile \in SeqsUpTo(StepCommands, MaxSteps)
    /\ readAtStart = <<>>
    /\ fs = {}
    /\ mgr = "none"
    /\ tasks = <<>>
    /\ expected_outputs = <<>>
    /\ stopped = FALSE
    /\ exitcode = <<>>
    /\ ret = "none"
    /\ lastDone = -1
    /\ ncalls = 0
    /\ inorder = TRUE

WfNext ==
    \/ Construct
    \/ \E done \in 0..(MaxSteps - 1) : NextCall(done)
    \/ \E p \in Paths : FsCreate(p)
    \/ \E p \in Paths : FsDelete(p)

SpecWorkflow == WfInit /\ [][WfNext]_vars

(***************************************************************************)
(* Specification of the workflow manager with a workflow file that is      *)
(* rewritten while the manager is live                                     *)
(***************************************************************************)
\* the step commands whose preparation runs through
PlainCommands == {c \in StepCommands : c.fault = "none"}

\* what an edit makes of the workflow file: the last step is dropped, a
\* step is added, or the last step is replaced by another one
Edits(desc) ==
    (IF Len(desc) > 0
     THEN {SubSeq(desc, 1, Len(desc) - 1)}
              \cup {[desc EXCEPT ![Len(desc)] = c] : c \in PlainCommands}
     ELSE {})
        \cup (IF Len(desc) < MaxSteps
              THEN {Append(desc, c) : c \in PlainCommands}
              ELSE {})

DescriptorInit ==
    /\ BuildIdle
    /\ FeatIdle
    /\ DebugIdle
    /\ BatchIdle
    /\ PipeIdle
    /\ RjIdle
    /\ SaveIdle
    /\ CollectIdle
    /\ StepIdle
    /\ descFile \in SeqsUpTo(PlainCommands, MaxSteps)
    /\ readAtStart = <<>>
    /\ fs = {}
    /\ mgr = "none"
    /\ tasks = <<>>
    /\ expected_outputs = <<>>
    /\ stopped = FALSE
    /\ exitcode = <<>>
    /\ ret = "none"
    /\ lastDone = -1
    /\ ncalls = 0
    /\ inorder = TRUE

DescriptorNext ==
    \/ Construct
    \/ \E done \in 0..(MaxSteps - 1) : NextCall(done)
    \/ \E p \in Paths : FsCreate(p)
    \/ \E p \in Paths : FsDelete(p)
    \/ \E new \in Edits(descFile) : EditDescription(new)
    \/ \E done \in 0..(MaxSteps - 1), new \in Edits(descFile) :
           NextCallOverEdit(done, new)

SpecDescriptor == DescriptorInit /\ [][DescriptorNext]_vars

(***************************************************************************)
(* Specification of create_run_batches                                     *)
(***************************************************************************)
BatchInit ==
    /\ BuildIdle
    /\ FeatIdle
    /\ DebugIdle
    /\ WfIdle
    /\ PipeIdle
    /\ RjIdle
    /\ SaveIdle
    /\ CollectIdle
    /\ StepIdle
    /\ dbSites \in SUBSET (1..MaxSites)
    /\ channels \in SUBSET AllChannels
    /\ bargs = [batch_size |-> 1, plot |-> FALSE]
    /\ gpc = "none"
    /\ site_ids = <<>>
    /\ batches = <<>>
    /\ j = 0
    /\ image_file_locations = {}
    /\ emitted = <<>>

BatchNext ==
    \/ \E b \in 1..MaxBatchSize, p \in BOOLEAN :
            CreateRunBatches([batch_size |-> b, plot |-> p])
    \/ GenStart
    \/ GenResume

SpecBatches == BatchInit /\ [][BatchNext]_vars

(***************************************************************************)
(* Specification of _run_pipeline                                          *)
(***************************************************************************)
PipeInit ==
    /\ BuildIdle
    /\ FeatIdle
    /\ DebugIdle
    /\ WfIdle
    /\ BatchIdle
    /\ RjIdle
    /\ SaveIdle
    /\ CollectIdle
    /\ StepIdle
    /\ pipeline \in SeqsUpTo(ModuleSpecs, MaxModules)
    /\ store = LoadedStore
    /\ ppc = "idle"
    /\ it = 1
    /\ handles = <<>>
    /\ execlog = <<>>
    /\ languages = [i \in 1..Len(pipeline) |-> "Python"]
    /\ runlog = <<>>
    /\ plotRequested = FALSE
    /\ plotHandles = [i \in 1..Len(pipeline) |-> <<>>]
    /\ figures = {}
    /\ bindlog = <<>>

PipeNext ==
    \/ RunPipeline
    \/ RunUpdateHandles
    \/ RunModule
    \/ RunUpdateStore

SpecPipeline == PipeInit /\ [][PipeNext]_vars

(***************************************************************************)
(* Specification of the pipeline property                                  *)
(***************************************************************************)
Elements == {[active |-> a, source |-> src] : a \in BOOLEAN, src \in Sources}

BuildInit ==
    /\ WfIdle
    /\ BatchIdle
    /\ PipeIdle
    /\ RjIdle
    /\ SaveIdle
    /\ CollectIdle
    /\ StepIdle
    /\ FeatIdle
    /\ DebugIdle
    /\ elements \in SeqsUpTo(Elements, MaxElements)
    /\ moduleFiles \in SUBSET {SourceFile(src) : src \in Sources}
    /\ bpc = "none"
    /\ built = <<>>
    /\ checked = {}

BuildNext == BuildPipeline

SpecBuild == BuildInit /\ [][BuildNext]_vars

(***************************************************************************)
(* Specification of run_job: one job works through the sites of its batch  *)
(***************************************************************************)
\* the batches a job can get: ascending site ids, as create_run_batches
\* makes them
RjBatches == {Ascending(S) : S \in SUBSET (1..RjMaxSites)}

\* what a pipeline with the one output object "Cells" leaves in the store
PlainOutput ==
    [objects |-> "Cells" :> SegmentedObjects("Cells", {1, 2}, {Area}, 1, {}, {}),
     desc |-> [output |-> {[name |-> "Cells", as_polygons |-> TRUE]},
               input |-> {}],
     order |-> <<"Cells">>]

RunJobInit ==
    /\ BuildIdle
    /\ FeatIdle
    /\ DebugIdle
    /\ WfIdle
    /\ BatchIdle
    /\ SaveIdle
    /\ CollectIdle
    /\ StepIdle
    /\ rjSites \in RjBatches
    /\ rpc = "idle"
    /\ si = 0
    /\ engines = InitialEngines
    /\ engineStarts = 0
    /\ matlabOk \in BOOLEAN
    /\ failing \in SUBSET {rjSites[i] : i \in 1..Len(rjSites)}
    /\ channel_input = PlainChannels
    /\ illumstats = {}
    /\ unitOutput = <<PlainOutput>>
    /\ images = <<>>
    /\ rjErr = "none"
    /\ loaded = <<>>
    /\ persisted = <<>>
    /\ pipeline \in SeqsUpTo({[ins |-> {"img"}, out |-> "a"]}, RjMaxModules)
    /\ languages \in [1..Len(pipeline) -> Languages]
    /\ store = LoadedStore
    /\ ppc = "none"
    /\ it = 1
    /\ handles = <<>>
    /\ execlog = <<>>
    /\ runlog = <<>>
    /\ plotRequested = FALSE
    /\ plotHandles = [i \in 1..Len(pipeline) |-> <<>>]
    /\ figures = {}
    /\ bindlog = <<>>

RunJobNext ==
    \/ RunJob
    \/ StartEngines
    \/ LoadPipelineInput
    \/ RunPipeline
    \/ RunUpdateHandles
    \/ RunModule
    \/ RunUpdateStore
    \/ SavePipelineOutputs
    \/ RunJobRaised

SpecRunJob == RunJobInit /\ [][RunJobNext]_vars

(***************************************************************************)
(* Specification of plotting: a job runs Python modules with and without   *)
(* a 'plot' handle, with and without the plot flag of its batch            *)
(***************************************************************************)
\* the input handles named 'plot' a module can have
PlotHandleSamples == {<<>>, <<FALSE>>, <<TRUE>>}

PlotInit ==
    /\ BuildIdle
    /\ FeatIdle
    /\ DebugIdle
    /\ WfIdle
    /\ BatchIdle
    /\ SaveIdle
    /\ CollectIdle
    /\ StepIdle
    /\ rjSites \in RjBatches
    /\ rpc = "idle"
    /\ si = 0
    /\ engines = InitialEngines
    /\ engineStarts = 0
    /\ matlabOk = TRUE
    /\ failing \in SUBSET {rjSites[i] : i \in 1..Len(rjSites)}
    /\ channel_input = PlainChannels
    /\ illumstats = {}
    /\ unitOutput = <<PlainOutput>>
    /\ images = <<>>
    /\ rjErr = "none"
    /\ loaded = <<>>
    /\ persisted = <<>>
    /\ pipeline \in SeqsUpTo({[ins |-> {"img"}, out |-> "a"]}, RjMaxModules)
    /\ languages = [i \in 1..Len(pipeline) |-> "Python"]
    /\ store = LoadedStore
    /\ ppc = "none"
    /\ it = 1
    /\ handles = <<>>
    /\ execlog = <<>>
    /\ runlog = <<>>
    /\ plotRequested \in BOOLEAN
    \* create_run_batches makes batches of one site when plot is set
    /\ plotRequested => Len(rjSites) <= 1
    /\ plotHandles \in [1..Len(pipeline) -> PlotHandleSamples]
    /\ figures = {}
    /\ bindlog = <<>>

SpecPlot == PlotInit /\ [][RunJobNext]_vars

(***************************************************************************)
(* Specification of the units of a job: a job loads, runs and saves the    *)
(* sites of its batch, with channels that are to be corrected, with and    *)
(* without illumination statistics, on a database with and without the     *)
(* outputs of an earlier run                                               *)
(***************************************************************************)
\* project.pipe.description.input.channels
ChannelInputs ==
    { <<[name |-> "img", correct |-> c]>> : c \in BOOLEAN }
        \cup { <<[name |-> "img", correct |-> c], [name |-> "dapi", correct |-> d]>> :
                  c \in BOOLEAN, d \in BOOLEAN }

\* what the pipeline of the step leaves in the store of a unit
UnitOutputs ==
    {PlainOutput} \cup {c \in SaveChoices : /\ Len(c.order) = 2
                                            /\ c.desc.input = {}
                                            /\ c.objects["Cells"].labels = {1}}

\* the database after an earlier run of the step that saved every site
EarlierRun == RunPhase(StaticDb(StaticTypes), PlainOutput, RjMaxSites, 1).db

UnitInit ==
    /\ BuildIdle
    /\ FeatIdle
    /\ DebugIdle
    /\ WfIdle
    /\ BatchIdle
    /\ CollectIdle
    /\ StepIdle
    /\ svpc = "idle"
    /\ svObjects = <<>>
    /\ svDesc = [output |-> {}, input |-> {}]
    /\ svSite = 0
    /\ svOrder = <<>>
    /\ svI = 1
    /\ measurements = <<>>
    /\ svPrior = <<>>
    /\ nsaves = 0
    /\ rjSites \in RjBatches
    /\ rpc = "idle"
    /\ si = 0
    /\ engines = InitialEngines
    /\ engineStarts = 0
    /\ matlabOk = TRUE
    /\ failing \in SUBSET {rjSites[i] : i \in 1..Len(rjSites)}
    /\ channel_input \in ChannelInputs
    /\ illumstats \in SUBSET {"img", "dapi"}
    /\ unitOutput \in {<<c>> : c \in UnitOutputs}
    /\ images = <<>>
    /\ rjErr = "none"
    /\ loaded = <<>>
    /\ persisted = <<>>
    \* an earlier run of the step has saved every site, or none
    /\ \E rerun \in BOOLEAN :
           database = IF rerun THEN EarlierRun ELSE StaticDb(StaticTypes)
    /\ pipeline \in SeqsUpTo({[ins |-> {"img"}, out |-> "a"],
                               [ins |-> {"dapi"}, out |-> "b"]}, RjMaxModules)
    /\ languages = [i \in 1..Len(pipeline) |-> "Python"]
    /\ store = LoadedStore
    /\ ppc = "none"
    /\ it = 1
    /\ handles = <<>>
    /\ execlog = <<>>
    /\ runlog = <<>>
    /\ plotRequested = FALSE
    /\ plotHandles = [i \in 1..Len(pipeline) |-> <<>>]
    /\ figures = {}
    /\ bindlog = <<>>

SpecUnit == UnitInit /\ [][RunJobNext]_vars

(***************************************************************************)
(* Specification of _save_pipeline_outputs: the outputs of units are saved *)
(* one after the other, a unit possibly more than once                     *)
(***************************************************************************)
SaveInit ==
    /\ BuildIdle
    /\ FeatIdle
    /\ DebugIdle
    /\ WfIdle
    /\ BatchIdle
    /\ PipeIdle
    /\ RjIdle
    /\ SaveIdle
    /\ CollectIdle
    /\ StepIdle

SaveNext ==
    \/ SaveFirstLoop
    \/ SaveSecondLoop

SpecSave == SaveInit /\ [][SaveNext]_vars

(***************************************************************************)
(* Specification of a _save_pipeline_outputs call on a database that the   *)
(* calls before it have filled, for experiments with different maximum     *)
(* zoom levels                                                             *)
(***************************************************************************)
\* layer.maxzoom_level_index of the experiment
MaxzoomSamples == {-1, 3, 4, 6}

\* the store of the calls before: Cells and Nuclei, both output objects
EarlierOutput ==
    CHOOSE c \in SaveChoices :
        /\ c.order = <<"Nuclei", "Cells">>
        /\ c.desc.input = {}
        /\ c.objects["Nuclei"].columns = {Intensity}
        /\ c.objects["Cells"].empty = {}

RECURSIVE EarlierSaves(_, _)
\* the database after n calls, for the sites 1, 2, ... in turn
EarlierSaves(d, n) ==
    IF n = 0 THEN d
    ELSE LET e == EarlierSaves(d, n - 1)
         IN  SaveOutputs(e, EarlierOutput.objects, EarlierOutput.desc,
                         ((n - 1) % NSites) + 1, EarlierOutput.order).db

ResaveInit ==
    /\ BuildIdle
    /\ FeatIdle
    /\ DebugIdle
    /\ WfIdle
    /\ BatchIdle
    /\ PipeIdle
    /\ RjIdle
    /\ \E z \in MaxzoomSamples :
           database = EarlierSaves(WithMaxzoom(StaticDb(StaticTypes), z),
                                   MaxSaves - 1)
    /\ svpc = "done"
    /\ svObjects = EarlierOutput.objects
    /\ svDesc = EarlierOutput.desc
    /\ svSite = ((MaxSaves - 2) % NSites) + 1
    /\ svOrder = EarlierOutput.order
    /\ svI = Len(EarlierOutput.order)
    /\ measurements = LastMeasurements(EarlierOutput.objects, EarlierOutput.order)
    /\ svPrior = <<>>
    /\ nsaves = MaxSaves - 1
    /\ CollectIdle
    /\ StepIdle

SpecResave == ResaveInit /\ [][SaveNext]_vars

(***************************************************************************)
(* Specification of _add_feature: two connections call it at the same      *)
(* time, with the same and with different keys, on a catalog with and      *)
(* without the features                                                    *)
(***************************************************************************)
\* the catalog after a collect phase has added a feature
CatalogSamples ==
    {StaticDb(StaticTypes)} \cup
    {AddFeature(StaticDb(StaticTypes), a.name, a.mapobject_type_id,
                a.is_aggregate).db : a \in AddFeatureArgs}

FeatInit ==
    /\ WfIdle
    /\ BatchIdle
    /\ PipeIdle
    /\ RjIdle
    /\ svpc = "idle"
    /\ svObjects = <<>>
    /\ svDesc = [output |-> {}, input |-> {}]
    /\ svSite = 0
    /\ svOrder = <<>>
    /\ svI = 1
    /\ measurements = <<>>
    /\ svPrior = <<>>
    /\ nsaves = 0
    /\ CollectIdle
    /\ StepIdle
    /\ BuildIdle
    /\ FeatIdle
    /\ DebugIdle
    /\ database \in CatalogSamples

FeatNext ==
    \E c \in Callers :
        \/ AddFeatureCall(c)
        \/ AddFeatureInsert(c)
        \/ AddFeatureSelect(c)

SpecFeat == FeatInit /\ [][FeatNext]_vars

(***************************************************************************)
(* Specification of create_debug_run_jobs: one call on an empty collection *)
(***************************************************************************)
DebugInit ==
    /\ WfIdle
    /\ BatchIdle
    /\ PipeIdle
    /\ RjIdle
    /\ SaveIdle
    /\ CollectIdle
    /\ StepIdle
    /\ BuildIdle
    /\ FeatIdle
    /\ dbgpc = "idle"
    /\ dbgArgs \in DebugArgs
    /\ job_collection = <<>>
    /\ dbgErr = "none"

DebugNext == CreateDebugRunJobs

SpecDebug == DebugInit /\ [][DebugNext]_vars

(***************************************************************************)
(* Specification of collect_job_output: it runs, possibly twice, on what   *)
(* the run jobs of the step have saved                                     *)
(***************************************************************************)
\* the object types of the plate layout: as they should be, without the
\* Wells type, without the Plates type, with a second type of ref_type Site
HierarchySamples ==
    { StaticTypes,
      StaticTypes \ {WellType},
      StaticTypes \ {PlateType},
      StaticTypes \cup {[id |-> SiteType.id + 1, name |-> "Fields",
                         ref_type |-> "Site"]} }

CollectInit ==
    /\ BuildIdle
    /\ FeatIdle
    /\ DebugIdle
    /\ WfIdle
    /\ BatchIdle
    /\ PipeIdle
    /\ RjIdle
    /\ CollectIdle
    /\ StepIdle
    /\ svpc = "idle"
    /\ svObjects = <<>>
    /\ svDesc = [output |-> {}, input |-> {}]
    /\ svSite = 0
    /\ svOrder = <<>>
    /\ svI = 1
    /\ measurements = <<>>
    /\ svPrior = <<>>
    /\ nsaves = 0
    /\ \E types \in HierarchySamples, choice \in SaveChoices, n \in 1..NSites :
           /\ ~ RunPhase(StaticDb(types), choice, n, 1).raised
           /\ database = RunPhase(StaticDb(types), choice, n, 1).db

CollectNext ==
    \/ CollectCleanup
    \/ CollectLookup
    \/ CollectAggregate

SpecCollect == CollectInit /\ [][CollectNext]_vars

(***************************************************************************)
(* Specification of collect_job_output on a database that holds, next to   *)
(* what the run jobs of the step have saved, the objects of an earlier     *)
(* submission with other output objects                                    *)
(***************************************************************************)
\* the database after the run jobs of the earlier submission
EarlierSubmission == RunPhase(StaticDb(StaticTypes), EarlierOutput, NSites, 1).db

\* the stores of the step: Cells is the one object and the one output object
LaterChoices == {c \in SaveChoices : DOMAIN c.objects = {"Cells"}}

RecollectInit ==
    /\ BuildIdle
    /\ FeatIdle
    /\ DebugIdle
    /\ WfIdle
    /\ BatchIdle
    /\ PipeIdle
    /\ RjIdle
    /\ CollectIdle
    /\ StepIdle
    /\ svpc = "idle"
    /\ svObjects = <<>>
    /\ svDesc = [output |-> {}, input |-> {}]
    /\ svSite = 0
    /\ svOrder = <<>>
    /\ svI = 1
    /\ measurements = <<>>
    /\ svPrior = <<>>
    /\ nsaves = 0
    /\ \E choice \in LaterChoices, n \in 1..NSites :
           /\ ~ RunPhase(EarlierSubmission, choice, n, 1).raised
           /\ database = RunPhase(EarlierSubmission, choice, n, 1).db

SpecRecollect == RecollectInit /\ [][CollectNext]_vars

(***************************************************************************)
(* Specification of one step: the run jobs work on their batches in        *)
(* parallel, the collect job follows                                       *)
(***************************************************************************)
StepInit ==
    /\ BuildIdle
    /\ FeatIdle
    /\ DebugIdle
    /\ WfIdle
    /\ BatchIdle
    /\ PipeIdle
    /\ RjIdle
    /\ SaveIdle
    /\ cpc = "unsubmitted"
    /\ cerr = "none"
    /\ ref_id_lut = <<>>
    /\ work = <<>>
    /\ new_features = NoNewFeatures
    /\ aggregated = {}
    /\ ncollects = 0
    /\ firstRun = <<>>
    /\ \E batch_size \in 1..NSites :
           jobs = [jb \in 1..Len(CreateBatches(SiteIds(1..NSites), batch_size)) |->
                      [site_ids |-> CreateBatches(SiteIds(1..NSites), batch_size)[jb],
                       state |-> "pending", saved |-> 0]]
    /\ \E choice \in SaveChoices : stepChoice = <<choice>>

StepNext ==
    \/ JobStart
    \/ JobSaveSite
    \/ SubmitCollect
    \/ CollectCleanup
    \/ CollectLookup
    \/ CollectAggregate

SpecStep == StepInit /\ [][StepNext]_vars

(***************************************************************************)
(* Claims about _run_pipeline                                              *)
(***************************************************************************)
\* positions of the log before position e at which module k wrote the store
WritesBefore(k, e) ==
    { w \in 1..(e - 1) : execlog[w].kind = "write" /\ execlog[w].m = k }

\* what module k must see under key: the value of the last module before k
\* in the pipeline list that writes key, else what was loaded
Visible(pl, k, key) ==
    LET ws == { w \in 1..(k - 1) : pl[w].out = key }
    IN  IF ws = {} THEN LoadedStore[key] ELSE <<SetMax(ws)>>

\* C10: modules execute in the order of the pipeline list: when module k
\* resolves its input handles, every module before k has run and written
\* its output to the store and no later module has, so each input handle of
\* k holds the value of the closest earlier writer and never a value of a
\* later module.
C10_SequentialModules ==
    \A e \in 1..Len(execlog) :
        LET ev == execlog[e]
        IN  /\ ev.kind = "bind" =>
                /\ \A k \in 1..(ev.m - 1) : WritesBefore(k, e) # {}
                /\ \A k \in ev.m..Len(pipeline) : WritesBefore(k, e) = {}
                /\ \A key \in pipeline[ev.m].ins :
                      /\ ev.vals[key] = Visible(pipeline, ev.m, key)
                      /\ \A k \in ev.m..Len(pipeline) : ev.vals[key] # <<k>>
            /\ ev.kind = "run" =>
                e > 1 /\ execlog[e - 1] = [kind |-> "bind", m |-> ev.m,
                                           vals |-> execlog[e - 1].vals]
            /\ ev.kind = "write" =>
                e > 1 /\ execlog[e - 1] = [kind |-> "run", m |-> ev.m,
                                           vals |-> <<>>]

\* C10 witness: a pipeline of three modules ran to its end, and its second
\* module read under "a" the value its first module had written.
C10_Witness ==
    /\ ppc = "done"
    /\ Len(pipeline) = 3
    /\ pipeline[1].out = "a"
    /\ "a" \in pipeline[2].ins
    /\ \E e \in 1..Len(execlog) :
          /\ execlog[e].kind = "bind"
          /\ execlog[e].m = 2
          /\ execlog[e].vals["a"] = <<1>>

\* the file the module of a built pipeline is created with exists
ModuleFileExists(module) == module.source_file \in moduleFiles

\* C23: the pipeline is built only if the source of every active element
\* resolves to an existing file; if the source of an active element does
\* not, whatever its form, building raises PipelineDescriptionError and no
\* module list is returned.
C23_MissingSourceFails ==
    /\ bpc = "built" =>
           \A k \in 1..Len(built) : ModuleFileExists(built[k])
    /\ bpc \in {"built", "raised"} =>
           ((\E i \in 1..Len(elements) :
                 /\ elements[i].active
                 /\ SourceFile(elements[i].source) \notin moduleFiles)
             => bpc = "raised" /\ built = <<>>)

\* the module has an input handle named 'plot' whose value is true
HasTruePlotHandle(m) ==
    \E h \in 1..Len(plotHandles[m]) : plotHandles[m][h]

\* the modules that have completed their iteration on the unit at work
CompletedModules ==
    IF rpc # "run" \/ ppc \in {"none", "idle"} THEN {}
    ELSE IF ppc = "done" THEN 1..Len(pipeline)
    ELSE 1..(it - 1)

\* the (unit, module) pairs of which the module has completed on the unit
CompletedPairs ==
    {<<site, m>> \in Elems(persisted) \X (1..Len(pipeline)) : TRUE}
    \cup {<<CurrentSite, m>> : m \in CompletedModules}

\* C21: a figure is written for a unit and a module only if plotting was
\* requested for the run and the module has an input handle 'plot' that is
\* true; every module that has completed on a unit under these two
\* conditions has its figure; every update_handles call is headless exactly
\* when plotting was not requested.
C21_FigureIffRequestedAndActive ==
    /\ \A f \in figures :
           /\ plotRequested
           /\ f[2] \in 1..Len(pipeline)
           /\ HasTruePlotHandle(f[2])
    /\ \A pair \in CompletedPairs :
           pair \in figures <=> (plotRequested /\ HasTruePlotHandle(pair[2]))
    /\ \A e \in 1..Len(bindlog) : bindlog[e].headless <=> ~ plotRequested

\* C21 witness: a job with plotting requested has ended; its first module
\* has a false 'plot' handle and no figure, its second a true one and a
\* figure, and the handles were bound with headless off.
C21_Witness ==
    /\ rpc = "done"
    /\ plotRequested
    /\ rjSites = <<2>>
    /\ Len(pipeline) = 2
    /\ plotHandles = << <<FALSE>>, <<TRUE>> >>
    /\ figures = {FigureFile(2, 2)}
    /\ Len(bindlog) = 2
    /\ ~ bindlog[2].headless

(***************************************************************************)
(* Claims about create_run_batches                                         *)
(***************************************************************************)
RECURSIVE Concat(_)
Concat(ss) == IF ss = <<>> THEN <<>> ELSE Head(ss) \o Concat(Tail(ss))

\* the site id lists of the batches emitted so far, in emission order
EmittedSiteIds == [k \in 1..Len(emitted) |-> emitted[k].site_ids]

\* the positions (batch, place) at which a site id was emitted
Occurrences(id) ==
    { <<k, i>> \in (1..Len(emitted)) \X (1..MaxSites + 1) :
        i <= Len(emitted[k].site_ids) /\ emitted[k].site_ids[i] = id }

\* C6: the emitted batches are contiguous runs of the ordered site ids U, of
\* at most b ids each and of exactly b ids for every batch but the last;
\* concatenated in emission order they give U, so every id of U is in
\* exactly one batch.
C6_PartitionTotality ==
    LET U == Ascending(dbSites)
        b == bargs.batch_size
        flat == Concat(EmittedSiteIds)
    IN  /\ Len(flat) <= Len(U)
        /\ flat = SubSeq(U, 1, Len(flat))
        /\ \A k \in 1..Len(emitted) :
              /\ Len(emitted[k].site_ids) >= 1
              /\ Len(emitted[k].site_ids) <= b
              /\ k < Len(emitted) => Len(emitted[k].site_ids) = b
        /\ gpc = "exhausted" =>
              /\ flat = U
              /\ \A id \in dbSites : Cardinality(Occurrences(id)) = 1

\* C6 witness: 5 sites with batch size 2 were emitted as batches of 2, 2, 1.
C6_Witness ==
    /\ gpc = "exhausted"
    /\ Cardinality(dbSites) = 5
    /\ bargs.batch_size = 2
    /\ [k \in 1..Len(emitted) |-> Len(emitted[k].site_ids)] = <<2, 2, 1>>

\* C7: the k-th emitted batch (k counted from 1) has id k.
C7_BatchIdsOneBased ==
    \A k \in 1..Len(emitted) : emitted[k].id = k

\* C7 witness: a third batch was emitted.
C7_Witness ==
    /\ Len(emitted) >= 3
    /\ emitted[1].id = 1
    /\ emitted[3].id = 3

\* C8: with plot enabled and batch_size != 1 the generator fails with a
\* JobDescriptionError when it is first resumed and never emits a batch;
\* with batch_size = 1 or plot disabled it does not raise.
C8_PlotNeedsBatchSizeOne ==
    /\ gpc \in {"suspended", "exhausted", "raised"} =>
          (gpc = "raised" <=> (bargs.plot /\ bargs.batch_size # 1))
    /\ (bargs.plot /\ bargs.batch_size # 1) => emitted = <<>>
    /\ gpc = "raised" => emitted = <<>>

\* C8 witness: plotting was requested for batches of two sites and the
\* generator raised.
C8_Witness ==
    /\ gpc = "raised"
    /\ bargs.plot
    /\ bargs.batch_size = 2
    /\ dbSites # {}
    /\ emitted = <<>>

\* C9: every emitted job batch carries, besides id, site_ids and plot, the
\* image file locations of the declared input channels at its sites.
C9_BatchCarriesLocations ==
    \A k \in 1..Len(emitted) :
        \E key \in DOMAIN emitted[k] \ {"id", "site_ids", "plot"} :
            emitted[k][key] = ImageFileLocations(channels, emitted[k].site_ids)

(***************************************************************************)
(* Claims about _save_pipeline_outputs                                     *)
(***************************************************************************)
\* the type is declared as an input object of the pipeline
DeclaredInput(desc, name) == \E item \in desc.input : item.name = name

MapobjectIds == {m.id : m \in database.mapobjects}

\* C13: for every object type that is persisted: the prior mapobjects of a
\* type declared as an input of the pipeline are not cascade-deleted, those of
\* any other type are; no persisted type is both an input and deleted.
C13_InputsNotDeleted ==
    \A e \in 1..Len(svPrior) :
        IF DeclaredInput(svDesc, svPrior[e].name)
        THEN /\ ~ svPrior[e].deleted
             /\ svPrior[e].prior \subseteq MapobjectIds
        ELSE /\ svPrior[e].deleted
             /\ svPrior[e].prior \cap MapobjectIds = {}

\* the iterations of the second loop that ran to their end
SavedEntries ==
    {e \in 1..Len(svPrior) : e < Len(svPrior) \/ svpc # "raised"}

\* the store has an empty polygon or an empty measurement table
HasEmptyEntry(objects, order) ==
    \E i \in 1..Len(order) :
        objects[order[i]].nopoly # {} \/ objects[order[i]].empty # {}

\* the feature values persisted for a mapobject at a time point
ValuesOf(id, tpoint) ==
    {v \in database.feature_values : v.mapobject_id = id /\ v.tpoint = tpoint}

\* for every object type saved so far, a label has a segmentation at a time
\* point exactly if its polygon there is not empty (or it is saved as a
\* point), and it has feature values at a time point exactly if the type's
\* measurement table of that time point is not empty
OnlyEmptyEntriesSkipped ==
    \A e \in SavedEntries :
        LET so == svObjects[svPrior[e].name]
            ids == svPrior[e].ids
        IN  \A label \in so.labels : \A t \in 1..so.ntp :
                /\ \E m \in database.mapobjects :
                       /\ m.id = ids[label]
                       /\ (t - 1 \in m.segm) <=>
                              ~ (AsPolygons(svDesc, so.name)
                                   /\ <<label, t>> \in so.nopoly)
                /\ (ValuesOf(ids[label], t - 1) # {}) <=> t \notin so.empty

\* C22: when the store of a unit has an empty polygon or an empty
\* measurement table, _save_pipeline_outputs does not raise, nothing is
\* persisted for the empty entry, and the segmentations and feature values
\* of every other label and time point of every saved type are persisted.
C22_EmptyEntriesSkipped ==
    HasEmptyEntry(svObjects, svOrder) =>
        svpc # "raised" /\ OnlyEmptyEntriesSkipped

\* the feature values of the mapobjects created for the labels of a saved
\* type are the type's own: for every label and every time point with a
\* table there is a record, and every record of the label is keyed by the
\* ids of the type's features and holds the type's measurements
OwnValues(e) ==
    LET so == svObjects[svPrior[e].name]
        ids == svPrior[e].ids
        tid == TypeByName(database, so.name).id
        own(v, label) ==
            /\ DOMAIN v.values =
                   {IdKey(FeatureId(database, tid, column)) : column \in so.columns}
            /\ \A column \in so.columns :
                   v.exact[IdKey(FeatureId(database, tid, column))] =
                       <<Raw(so.name, label, column, v.tpoint + 1), RawDen>>
    IN  \A label \in so.labels :
            /\ \A t \in (1..so.ntp) \ so.empty : ValuesOf(ids[label], t - 1) # {}
            /\ \A v \in database.feature_values :
                   v.mapobject_id = ids[label] => own(v, label)

\* C30: when more than one object type of a store is saved, the feature
\* values persisted for every saved type are built from the type's own
\* measurement tables, are keyed by the ids of the type's own features and
\* are attached to the mapobjects created for the type's labels.
C30_OwnMeasurements ==
    Len(svOrder) > 1 => \A e \in SavedEntries : OwnValues(e)

\* the type is declared as an output object of the pipeline
DeclaredOutput(desc, name) == \E item \in desc.output : item.name = name

\* what the database holds for the object type of a name: the type, its
\* mapobjects with their segmentations, its features and the feature values
\* of its mapobjects
PersistedOf(d, name) ==
    LET types == {t \in d.mapobject_types : t.name = name}
        objs == {m \in d.mapobjects : \E t \in types : m.mapobject_type_id = t.id}
    IN  [types |-> types,
         mapobjects |-> objs,
         features |-> {f \in d.features :
                          \E t \in types : f.mapobject_type_id = t.id},
         feature_values |-> {v \in d.feature_values :
                                \E m \in objs : v.mapobject_id = m.id}]

\* the collection has its type, and the site has one mapobject of the type
\* for every label, each with a point for every plane and with polygons
\* exactly if the declaration asks for polygons
PersistedAs(d, so, site, item) ==
    /\ \E t \in d.mapobject_types : t.name = so.name
    /\ LET objs == MapobjectsOfSite(d, TypeByName(d, so.name).id, site)
       IN  /\ Cardinality(objs) = Cardinality(so.labels)
           /\ \A m \in objs :
                  IF item.as_polygons
                  THEN m.npoly = m.nsegm
                  ELSE m.npoly = 0 /\ m.nsegm = so.ntp

\* a call has ended without an exception
SaveReturned == svpc = "done" /\ nsaves > 0

\* C31: a call that returns has persisted every collection of the store that
\* is declared as an output object, as polygons or as points as its
\* declaration says; no step of a call writes a type, a mapobject, a
\* segmentation, a feature or a feature value for a collection of the store
\* that is not declared as an output object.
C31_PersistedIffDeclaredOutput ==
    /\ [](SaveReturned =>
            \A name \in DOMAIN svObjects : \A item \in svDesc.output :
                item.name = name =>
                    PersistedAs(database, svObjects[name], svSite, item))
    /\ [][\A name \in DOMAIN svObjects' :
            ~ DeclaredOutput(svDesc', name) =>
                PersistedOf(database', name) = PersistedOf(database, name)]_vars

\* a call has returned on a store with a collection that is only an input, a
\* collection that is an output saved as points, and the database holds
\* something for the former from an earlier call
C31_Witness ==
    /\ SaveReturned
    /\ \E name \in DOMAIN svObjects :
           /\ ~ DeclaredOutput(svDesc, name)
           /\ DeclaredInput(svDesc, name)
           /\ PersistedOf(database, name).mapobjects # {}
    /\ \E item \in svDesc.output : ~ item.as_polygons

\* the larger of two numbers
MaxOf(a, b) == IF a >= b THEN a ELSE b

\* the segmentation layers of the planes of the objects the call saves
TouchedLayers(name) ==
    UNION {LayersOf(database, TypeByName(database, name).id, t, 0) :
             t \in 0..(svObjects[name].ntp - 1)}

\* C33: once the first loop of _save_pipeline_outputs has run, every plane of
\* every saved object has a segmentation layer, and every such layer has
\* polygon_threshold = max(0, maxzoom_level_index - 3) and centroid_threshold
\* = max(0, polygon_threshold - 2); both are >= 0 and centroid_threshold <=
\* polygon_threshold, also for a negative or small maxzoom_level_index.
C33_ThresholdsClamped ==
    svpc \in {"objects", "done", "raised"} =>
        \A i \in 1..Len(svOrder) :
            /\ \A t \in 0..(svObjects[svOrder[i]].ntp - 1) :
                   LayersOf(database, TypeByName(database, svOrder[i]).id, t, 0)
                       # {}
            /\ \A l \in TouchedLayers(svOrder[i]) :
                   LET pt == MaxOf(0, database.maxzoom_level_index - 3)
                   IN  /\ l.polygon_threshold = <<pt>>
                       /\ l.centroid_threshold = <<MaxOf(0, pt - 2)>>
                       /\ l.polygon_threshold[1] >= 0
                       /\ l.centroid_threshold[1] >= 0
                       /\ l.centroid_threshold[1] <= l.polygon_threshold[1]

\* a call has returned in an experiment with a negative maximum zoom level
\* index, and it has made a segmentation layer that was not there before
C33_Witness ==
    /\ svpc = "done"
    /\ nsaves = MaxSaves
    /\ database.maxzoom_level_index < 0
    /\ \E i \in 1..Len(svOrder) : \E l \in TouchedLayers(svOrder[i]) : l.tpoint > 0

(***************************************************************************)
(* Claims about collect_job_output                                         *)
(***************************************************************************)
CollectDone == cpc = "done"

\* C14: a second collect_job_output on unchanged outputs leaves the same
\* aggregate features with the same ids and the same aggregate feature
\* values as the first; nothing is duplicated.
C14_CollectIdempotent ==
    CollectDone /\ ncollects = 2 => AggregateState(database) = firstRun[1]

\* the objects of a type that have a polygon in some site
ObjectsInSites(d, tid) ==
    {m \in d.mapobjects :
        /\ m.mapobject_type_id = tid
        /\ m.npoly > 0
        /\ \E site \in d.mapobjects :
               /\ site.mapobject_type_id = ref_id_lut[1]
               /\ site.region \cap m.region # {}}

\* the features of the Site level derived from feature f of leaf type t with
\* a statistic, under either form of the name
DerivedFeatures(d, f, t, stat) ==
    {g \in d.features :
        /\ g.mapobject_type_id = ref_id_lut[1]
        /\ g.is_aggregate
        /\ \/ g.name = f.name \o <<t.name, stat>>
           \/ stat = "Count" /\ g.name = <<t.name, stat>>}

LeafFeatures(d) ==
    {f \in d.features : TypeById(d, f.mapobject_type_id).ref_type = "None"}

\* C15: after collect, for every leaf type T with an object that intersects
\* a site and for every feature F of T, the Site level has exactly five
\* features derived from (F, T), one per statistic.
C15_FiveDerivedFeatures ==
    CollectDone =>
        \A f \in LeafFeatures(database) :
            ObjectsInSites(database, f.mapobject_type_id) # {} =>
                \A s \in 1..Len(Statistics) :
                    Cardinality(DerivedFeatures(database, f,
                        TypeById(database, f.mapobject_type_id),
                        Statistics[s])) = 1

LeafTypeNames == {t.name : t \in LeafTypes(database)}

\* C16: every feature _aggregate created is named
\* '{feature}_{leafType}_{statistic}' for Min, Max, Sum and Mean and
\* '{leafType}_{statistic}' for Count.
C16_DerivedFeatureNames ==
    \A e \in new_features[1] :
        LET name == e[2]
        IN  /\ Len(name) >= 2
            /\ name[Len(name) - 1] \in LeafTypeNames
            /\ IF Last(name) = "Count" THEN Len(name) = 2
               ELSE /\ Len(name) > 2
                    /\ Last(name) \in {"Min", "Max", "Sum", "Mean"}

\* the feature values of the objects of the leaf types
LeafValues(d) ==
    {v \in d.feature_values :
        \E m \in d.mapobjects :
            /\ m.id = v.mapobject_id
            /\ TypeById(d, m.mapobject_type_id).ref_type = "None"}

C17_OnlyLeafTypesAggregated ==
    /\ \A a \in aggregated :
           IF a.level = 1
           THEN TypeById(database, a.over).ref_type = "None"
           ELSE TypeById(database, a.over).ref_type = Levels[a.level - 1]
    /\ \A l \in 1..Len(Levels) : \A e \in new_features[l] :
           \E f \in database.features :
               /\ f.id = e[1]
               /\ f.name = e[2]
               /\ f.is_aggregate
               /\ f.mapobject_type_id = ref_id_lut[l]
               /\ TypeById(database, f.mapobject_type_id).ref_type = Levels[l]
    /\ cpc \in {"lookup", "aggregate", "done"} =>
           \A f \in database.features :
               f.is_aggregate <=> f.mapobject_type_id \in HierarchyTypeIds(database)

C17_LeafFeaturesKept ==
    /\ LeafFeatures(database)' = LeafFeatures(database)
    /\ LeafValues(database)' \subseteq LeafValues(database)
    /\ \A v \in database'.feature_values \ database.feature_values :
           \E m \in database'.mapobjects :
               /\ m.id = v.mapobject_id
               /\ m.mapobject_type_id \in HierarchyTypeIds(database')

\* C17: collect aggregates only over the types without ref_type, every
\* feature and every feature value it creates belongs to a type of the
\* levels Site, Well, Plate and is an aggregate, and no feature of a leaf
\* type is created, changed or deleted.
C17_AggregatesOnlyAtHierarchy ==
    [](C17_OnlyLeafTypesAggregated) /\ [][C17_LeafFeaturesKept]_vars

C17_Witness ==
    /\ CollectDone
    /\ new_features[1] # {}
    /\ new_features[3] # {}
    /\ Cardinality(LeafTypes(database)) = 2
    /\ LeafFeatures(database) # {}

\* C18: when a level has no or more than one reference type, collect fails
\* with a descriptor error and no aggregate feature or value is written.
C18_DescriptorError ==
    FirstFailure(database) # 0 /\ cpc \in {"aggregate", "done", "raised"} =>
        /\ cpc = "raised"
        /\ cerr \in {"PipelineDescriptionError", "JobDescriptionError"}
        /\ AggregateState(database).features = {}
        /\ AggregateState(database).records = 0

\* the features of the types with ref_type Site, Well or Plate
HierarchyFeatures(d) ==
    {f \in d.features : f.mapobject_type_id \in HierarchyTypeIds(d)}

\* the features this call of collect_job_output has added so far
AddedFeatures == UNION {new_features[l] : l \in 1..Len(Levels)}

\* C26: the clean-up is over before the aggregation starts: while
\* collect_job_output aggregates, from its first aggregate feature on, every
\* feature of a type with ref_type Site, Well or Plate is one this call has
\* added, none is left from the previous call, and no feature values are
\* stored under a feature of the previous call.
C26_CleanBeforeAggregation ==
    cpc = "aggregate" =>
        /\ \A f \in HierarchyFeatures(database) : <<f.id, f.name>> \in AddedFeatures
        /\ aggregated = {} => HierarchyFeatures(database) = {}
        /\ ncollects > 0 =>
               /\ database.features \cap firstRun[1].features = {}
               /\ \A v \in database.feature_values :
                   \A f \in firstRun[1].features : IdKey(f.id) \notin DOMAIN v.values

\* the second call writes its first aggregate features, the first call
\* having left some
C26_Witness ==
    /\ cpc = "aggregate"
    /\ ncollects = 1
    /\ firstRun[1].features # {}
    /\ Cardinality(aggregated) = 1
    /\ HierarchyFeatures(database) # {}

\* the rows the call at the head of work queries: the feature values of the
\* objects of the level below that lie in the reference object
SourceRows ==
    QueryRows(database, ref_id_lut[Head(work).level - 1], Head(work).ref.region)

\* C27: the levels are aggregated in the order Site, Well, Plate: no call
\* for a level is made while a call for a lower level is still to be made.
\* The Site level is aggregated over leaf types; the Well level is
\* aggregated over the Site type and the Plate level over the Well type,
\* and every value such a call reads is stored under a feature that this
\* call of collect_job_output has added for the level below.
C27_BottomUp ==
    cpc = "aggregate" =>
        /\ \A i, k \in 1..Len(work) : i < k => work[i].level <= work[k].level
        /\ \A a \in aggregated : \A i \in 1..Len(work) : a.level <= work[i].level
        /\ \A a \in aggregated :
               IF a.level = 1
               THEN a.over \in {t.id : t \in LeafTypes(database)}
               ELSE a.over = ref_id_lut[a.level - 1]
        /\ Len(work) > 0 /\ Head(work).level > 1 =>
               \A e \in SourceRows : \A key \in DOMAIN e.values :
                   key \in {IdKey(x[1]) : x \in new_features[Head(work).level - 1]}

\* the Plate level is about to be aggregated over Well-level values, the
\* Site and the Well level being done
C27_Witness ==
    /\ cpc = "aggregate"
    /\ Len(work) > 0
    /\ Head(work).level = 3
    /\ {a.level : a \in aggregated} = {1, 2}
    /\ new_features[2] # {}
    /\ SourceRows # {}
    /\ Len(RefObjects(database, "Site")) > 1

\* the feature a key of FeatureValues.values stands for
FeatureOfKey(d, key) == CHOOSE f \in d.features : IdKey(f.id) = key

\* the object a row of feature values belongs to
ObjectOf(d, v) == CHOOSE m \in d.mapobjects : m.id = v.mapobject_id

\* the feature values of the objects of a level
RowsAtLevel(d, l) ==
    {v \in d.feature_values :
        ObjectOf(d, v).mapobject_type_id = RefTypeId(d, Levels[l])}

\* the column of the data frame for a name: for every row one level below
\* v, at the time point of v and for an object inside the object of v, the
\* value stored under the feature of that name, NaN if the row has none
SourceColumn(d, l, v, name) ==
    { [row |-> w.id, mult |-> 1,
       val |-> IF \E k \in DOMAIN w.values : FeatureOfKey(d, k).name = name
               THEN w.values[CHOOSE k \in DOMAIN w.values :
                                 FeatureOfKey(d, k).name = name]
               ELSE NaN] :
        w \in {x \in RowsAtLevel(d, l - 1) :
                  /\ x.tpoint = v.tpoint
                  /\ ObjectOf(d, x).region \cap ObjectOf(d, v).region # {}} }

\* the statistic of the numbers nums, as the quotient it is rounded from
Reapplied(stat, nums) ==
    CASE stat = "Min" -> <<SetMin({e.val[1] : e \in nums}), 1>>
      [] stat = "Max" -> <<SetMax({e.val[1] : e \in nums}), 1>>
      [] stat = "Sum" -> <<WeightedSum(nums), 1>>
      [] stat = "Mean" -> <<WeightedSum(nums), Cardinality(nums)>>
      [] stat = "Count" -> <<WeightedSum(nums), 1>>

RowsAt(d, tid, v) ==
    {w \in d.feature_values :
        /\ w.tpoint = v.tpoint
        /\ ObjectOf(d, w).mapobject_type_id = tid
        /\ ObjectOf(d, w).npoly > 0
        /\ ObjectOf(d, w).region \cap ObjectOf(d, v).region # {}}

\* the names of the derived features a call computes at the time point of v:
\* at the Site level from the columns of the leaf objects, above it from the
\* columns of the level below
ComputedAt(d, l, v) ==
    IF l = 1
    THEN UNION {
           {AggregateName(Statistics[st], ColumnName(k, FeatureMap(d, type.id)),
                          type.name) :
               k \in UNION {DOMAIN w.values : w \in RowsAt(d, type.id, v)},
               st \in 1..Len(Statistics)} : type \in LeafTypes(d)}
    ELSE {FeatureOfKey(d, k).name :
            k \in UNION {DOMAIN w.values :
                           w \in RowsAt(d, RefTypeId(d, Levels[l - 1]), v)}}

\* C34: every aggregate record of a reference object at a time point t holds
\* values only for derived features computed from the rows of time point t,
\* and when collect_job_output has returned every derived feature computed
\* at t has its value in a record of the reference object at t.
C34_OnlyOwnTimePoint ==
    cpc \in {"aggregate", "done"} =>
        \A l \in 1..Len(Levels) : \A v \in RowsAtLevel(database, l) :
            /\ \A k \in DOMAIN v.values :
                   FeatureOfKey(database, k).name \in ComputedAt(database, l, v)
            /\ cpc = "done" =>
                   \A name \in ComputedAt(database, l, v) :
                       \E u \in RowsAtLevel(database, l) :
                           /\ u.mapobject_id = v.mapobject_id
                           /\ u.tpoint = v.tpoint
                           /\ \E k \in DOMAIN u.values :
                                  FeatureOfKey(database, k).name = name

(***************************************************************************)
(* Claims about _add_feature                                               *)
(***************************************************************************)
\* two connections are inside _add_feature with the same key
SameKeyInFlight ==
    /\ \A c \in Callers : afpc[c] \in {"insert", "select"}
    /\ afArgs[1][1].name = afArgs[2][1].name
    /\ afArgs[1][1].mapobject_type_id = afArgs[2][1].mapobject_type_id

\* C32: whatever the interleaving of the statements of two connections that
\* call _add_feature: the catalog has at most one feature per name and
\* mapobject_type_id, every call that returned has returned the id of the
\* feature with its key (so calls with the same key return the same id), no
\* call raises, and a step inserts at most one feature, with a key that was
\* absent, and leaves every existing feature as it is.
C32_IdempotentUpsert ==
    /\ [](/\ \A f, g \in database.features :
                 f.name = g.name /\ f.mapobject_type_id = g.mapobject_type_id
                     => f = g
          /\ \A r \in afReturned :
                 \E f \in FeaturesWithKey(database, r.name, r.mapobject_type_id) :
                     f.id = r.id
          /\ \A c \in Callers : afpc[c] # "raised")
    /\ [][/\ database.features \subseteq database'.features
          /\ \A f \in database'.features \ database.features :
                 /\ FeaturesWithKey(database, f.name, f.mapobject_type_id) = {}
                 /\ database'.features = database.features \cup {f}]_vars

\* both connections are inside _add_feature with the same key: the first has
\* found the feature that a call of the second has inserted and is about to
\* select it, the second is about to insert it again
C32_Witness ==
    /\ SameKeyInFlight
    /\ afpc[1] = "select" /\ afpc[2] = "insert"
    /\ \E r \in afReturned :
           /\ r.caller = 2
           /\ r.name = afArgs[1][1].name
           /\ r.id = StaticDb(StaticTypes).serial.features

Abs(x) == IF x < 0 THEN 0 - x ELSE x

\* C20: every feature value in the database, of a leaf object or of a
\* reference object, is the quotient it was computed from rounded to the
\* nearest multiple of 10^-6.
C20_RoundedToSixDecimals ==
    \A v \in database.feature_values : \A k \in DOMAIN v.values :
        v.values[k] # NaN =>
            2 * Abs(v.exact[k][1] - v.values[k][1] * v.exact[k][2])
                <= v.exact[k][2]

C20_Witness ==
    /\ cpc = "done"
    /\ \E v \in LeafValues(database) : \E k \in DOMAIN v.values :
           v.exact[k] = <<123456789, 100>> /\ v.values[k] = <<1234568>>
    /\ \E v \in database.feature_values \ LeafValues(database) :
           \E k \in DOMAIN v.values :
               /\ v.values[k] # NaN
               /\ v.exact[k][2] > 1
               /\ v.exact[k][1] % v.exact[k][2] # 0

(***************************************************************************)
(* Claims about run_job                                                    *)
(***************************************************************************)
RjEnded == rpc \in {"done", "raised"}

\* C11: an execution error on one unit is fatal to that unit only: when the
\* job has ended, every other unit of its batch has been loaded, run and
\* persisted, the units after the failing one included.
C11_ErrorIsolatedToUnit ==
    RjEnded /\ "Matlab" \notin PipelineLanguages /\ "Julia" \notin PipelineLanguages
        => \A site \in Elems(rjSites) \ failing :
               /\ site \in Elems(loaded)
               /\ site \in Elems(persisted)

\* C12: the engines are started exactly once per run_job, before the first
\* unit is loaded and however many units the batch has, and every module
\* that is run gets the engine registered under its own language, for which
\* the registry has an entry.
C12_EnginesOncePerJob ==
    /\ engineStarts <= 1
    /\ rpc \in {"load", "run", "done"} => engineStarts = 1
    /\ Len(loaded) > 0 => engineStarts = 1
    /\ \A e \in 1..Len(runlog) :
           /\ runlog[e].lang = languages[runlog[e].m]
           /\ runlog[e].lang \in DOMAIN engines
           /\ runlog[e].engine = engines[runlog[e].lang]

C12_Witness ==
    /\ rpc = "done"
    /\ Len(persisted) = 2
    /\ engineStarts = 1
    /\ \E e \in 1..Len(runlog) :
           /\ runlog[e].site = 2
           /\ runlog[e].lang = "Matlab"
           /\ runlog[e].engine = "MatlabSession"

\* the channels of the description that are flagged for correction and
\* have no illumination statistics
Uncorrectable ==
    {i \in 1..Len(channel_input) :
        channel_input[i].correct /\ channel_input[i].name \notin illumstats}

\* C24: if an input channel is flagged for correction and has no
\* illumination statistics, loading a unit ends the job with a
\* PipelineDescriptionError: no image of that channel is loaded, no store is
\* returned, no module is bound or run, and nothing is persisted: the
\* database is as it was when the job started.
C24_MissingStatisticsFails ==
    Uncorrectable # {} =>
        /\ rpc # "run"
        /\ rpc = "done" => rjSites = <<>>
        /\ rpc = "raised" => rjErr = "PipelineDescriptionError"
        /\ \A i \in Uncorrectable : \A e \in Elems(images) :
               e[2] # channel_input[i].name
        /\ loaded = <<>>
        /\ bindlog = <<>>
        /\ runlog = <<>>
        /\ persisted = <<>>
        /\ database \in {StaticDb(StaticTypes), EarlierRun}

\* the second channel has no statistics: the images of the first one were
\* loaded, then loading failed, with outputs of an earlier run in place
C24_Witness ==
    /\ rpc = "raised"
    /\ rjErr = "PipelineDescriptionError"
    /\ Uncorrectable = {2}
    /\ images = <<<<CurrentSite, "img">>>>
    /\ Len(pipeline) > 0
    /\ database = EarlierRun

\* every module of the pipeline has run on the unit in hand and has written
\* its output to the store
AllModulesCompleted ==
    \A m \in 1..Len(pipeline) :
        \E e \in 1..Len(execlog) : execlog[e].kind = "write" /\ execlog[e].m = m

\* the rows of the tables that belong to a site
RowsOfSite(d, site) ==
    LET mos == {mo \in d.mapobjects : mo.region = {site}}
    IN  [mapobjects |-> mos,
         feature_values |-> {v \in d.feature_values :
                                \E mo \in mos : v.mapobject_id = mo.id}]

\* C29: the units of a job are loaded, run and saved in this order: a unit
\* is bound and run only once loaded and is persisted only once every
\* module has completed on it. The database changes only in the save of a
\* unit on which every module has completed, and the rows of every other
\* unit stay as they are: when loading or a module raises, nothing is
\* written and nothing is deleted for the unit.
C29_SaveAfterAllModules ==
    /\ [](/\ Len(persisted) <= Len(loaded)
          /\ \A i \in 1..Len(persisted) : persisted[i] = loaded[i]
          /\ \A e \in 1..Len(bindlog) : bindlog[e].site \in Elems(loaded)
          /\ \A e \in 1..Len(runlog) : runlog[e].site \in Elems(loaded)
          /\ \A site \in Elems(persisted) : \A m \in 1..Len(pipeline) :
                 \E e \in 1..Len(runlog) :
                     runlog[e].site = site /\ runlog[e].m = m)
    /\ [][database' # database =>
              /\ rpc = "run"
              /\ ppc = "done"
              /\ CurrentSite \in Elems(loaded)
              /\ AllModulesCompleted
              /\ \A site \in 1..NSites :
                     site # CurrentSite =>
                         RowsOfSite(database', site) = RowsOfSite(database, site)]_vars

\* the first unit was saved, a module raised on the second one, and the
\* outputs an earlier run saved for the second unit are still in place
C29_Witness ==
    /\ rpc = "raised"
    /\ rjErr = "Exception"
    /\ persisted = <<1>>
    /\ loaded = <<1, 2>>
    /\ Len(pipeline) = RjMaxModules
    /\ RowsOfSite(database, 2) = RowsOfSite(EarlierRun, 2)
    /\ RowsOfSite(database, 2).feature_values # {}
    /\ RowsOfSite(database, 1) # RowsOfSite(EarlierRun, 1)

(***************************************************************************)
(* Claims about ClusterWorkflowManager                                     *)
(***************************************************************************)
\* the step just taken is a call next(lastDone')
IsNextCall == ncalls' = ncalls + 1

\* the call just taken had a next step to prepare
PreparesStep == IsNextCall /\ HasNextStep(lastDone', workflow_description)

\* outcome of the step preparation of the call just taken
Preparation == AddStep(lastDone' + 1, workflow_description, tasks,
                       expected_outputs, fs)

\* C1: next(done) with done+1 < number of steps appends the job collection of
\* step done+1 to tasks only if every path of the last registered expected
\* outputs and every path of the step's required_inputs exists; if one of
\* them is missing, next returns a terminal state and tasks is not extended.
C1_UpstreamContract ==
    [][ PreparesStep =>
          LET step == At(workflow_description, lastDone' + 1)
              present == /\ AllExist(Last(expected_outputs), fs)
                         /\ AllExist(step.req, fs)
          IN  /\ (tasks' # tasks) => present
              /\ (tasks' # tasks) =>
                    tasks' = Append(tasks, [index |-> lastDone' + 1,
                                            name |-> step.name])
              /\ ~present =>
                    (ret' \in TerminalStates /\ tasks' = tasks) ]_vars

\* C1 witness: next(0) on a well-formed second step ended the workflow
\* without preparing it (only a missing path can cause that).
C1_Witness ==
    /\ Len(descFile) >= 2
    /\ At(descFile, 1).fault = "none"
    /\ ncalls = 1 /\ lastDone = 0
    /\ ret = TERMINATED
    /\ Len(tasks) = 1

\* exit code of a workflow whose last (only) step completed successfully
FinishedExitcode ==
    LET step == [name |-> "metaextract", req |-> {}, out |-> {"f1"},
                 fault |-> "none"]
    IN  NextResult(0, <<step>>, <<[index |-> 0, name |-> step.name]>>,
                   <<step.out>>, {"f1"}, FALSE, <<>>).exitcode

\* C2: when step preparation fails inside next, the exit code observable
\* after the call differs from the exit code of a workflow whose last step
\* completed successfully.
C2_AbortIsNonZero ==
    [][ (PreparesStep /\ Preparation.raised # "none")
            => exitcode' # FinishedExitcode ]_vars

\* C3 (as stated): any exception raised while preparing step done+1 is
\* caught, sets exitcode to 0 and makes next return STOPPED if the machine
\* was halted and TERMINATED otherwise; the exception never escapes.
C3_AnyExceptionCaught ==
    [][ (PreparesStep /\ Preparation.raised # "none")
            => (exitcode' = <<0>> /\ ret' = EndState(stopped)) ]_vars

\* C3 (amended): an exception derived from Exception raised while preparing
\* step done+1 is caught, sets exitcode to 0 and makes next return STOPPED if
\* the machine was halted and TERMINATED otherwise (never RUNNING); a
\* SystemExit raised by the argument parser is not caught by
\* "except Exception": it escapes next, which returns no state and leaves
\* exitcode as it was.
C3_ExceptionCaught ==
    [][ PreparesStep =>
          /\ Preparation.raised = "Exception" =>
                /\ exitcode' = <<0>>
                /\ ret' = EndState(stopped)
                /\ ret' \in TerminalStates
          /\ Preparation.raised = "SystemExit" =>
                /\ ret' = "raised"
                /\ exitcode' = exitcode ]_vars

\* C3 witness: next(0) failed on a step whose module cannot be imported.
C3_Witness ==
    /\ Len(descFile) >= 2
    /\ At(descFile, 1).fault = "import"
    /\ ncalls = 1 /\ lastDone = 0
    /\ AllExist(Last(expected_outputs), fs)
    /\ ret = TERMINATED
    /\ exitcode = <<0>>

\* C4: after any sequence of next calls, tasks[k] is the job collection of
\* descriptor step k for every k < len(tasks): every step was prepared at
\* most once, in increasing order and without gaps.
C4_StrictTotalOrder ==
    \A k \in 1..Len(tasks) : tasks[k].index = k - 1

\* C5: with next(0), next(1), ... called in order and every preparation
\* succeeding, next returns RUNNING and prepares step done+1 for done < N-1,
\* and at done = N-1 returns a terminal state, prepares nothing and sets
\* exitcode 0, all N steps having been prepared.
C5_TerminatesAfterNSteps ==
    [][ (IsNextCall /\ inorder') =>
          LET N == Len(workflow_description)
              done == lastDone'
          IN  /\ done < N - 1 =>
                    /\ ret' = RUNNING
                    /\ Len(tasks') = done + 2
                    /\ Last(tasks').index = done + 1
              /\ done = N - 1 =>
                    /\ ret' \in TerminalStates
                    /\ tasks' = tasks
                    /\ Len(tasks') = N
                    /\ exitcode' = <<0>> ]_vars

\* C5 witness: a workflow of at least two steps was driven in order to its
\* end.
C5_Witness ==
    /\ Len(descFile) >= 2
    /\ inorder
    /\ ncalls = Len(descFile)
    /\ lastDone = Len(descFile) - 1
    /\ ret = TERMINATED
    /\ Len(tasks) = Len(descFile)

\* C25: the workflow description is read once, when the manager is
\* constructed: every later call next(done) checks the range against the
\* number of steps read then and prepares the command read then, so its
\* outcome is the one the description of the construction gives, whatever
\* happens to the workflow file in the meantime.
C25_DescriptorReadOnce ==
    [][IsNextCall =>
          LET r == NextResult(lastDone', readAtStart, tasks, expected_outputs,
                              fs, stopped, exitcode)
          IN  /\ tasks' = r.tasks
              /\ expected_outputs' = r.expected_outputs
              /\ ret' = r.ret
              /\ exitcode' = r.exitcode]_vars

\* C35: after construction and after any sequence of next calls,
\* expected_outputs is as long as tasks and its k-th entry is the list
\* registered by step k; a next call whose step preparation fails, at whatever
\* point, leaves both tasks and expected_outputs unchanged.
C35_ListsAligned ==
    /\ [](mgr = "live" =>
             /\ Len(expected_outputs) = Len(tasks)
             /\ \A k \in 1..Len(expected_outputs) :
                   /\ k - 1 < Len(workflow_description)
                   /\ expected_outputs[k] = At(workflow_description, k - 1).out)
    /\ [][ (PreparesStep /\ Preparation.raised # "none")
              => UNCHANGED <<tasks, expected_outputs>> ]_vars

\* the step just taken is the construction of the manager
IsConstruct == mgr = "none" /\ mgr' # "none"

\* the first step of the description read by the constructor can be prepared:
\* it exists, its command is well formed and its required inputs exist
FirstStepPreparable ==
    /\ Len(workflow_description) > 0
    /\ At(workflow_description, 0).fault = "none"
    /\ AllExist(At(workflow_description, 0).req, fs)

\* the constructor of the step just taken left no manager and reported nothing
ConstructorRaised ==
    /\ mgr' = "raised"
    /\ ret' = ret
    /\ exitcode' = exitcode

\* C36 (as stated): the constructor prepares step 0 with the required-inputs
\* check and without a check of expected outputs; a failure of that
\* preparation propagates out of the constructor (no manager, no state
\* returned, exitcode not set), whereas next converts every failure of a later
\* step into a terminal state.
C36_FirstStepRaises ==
    /\ [][ IsConstruct =>
              /\ (mgr' = "live") = FirstStepPreparable
              /\ ~FirstStepPreparable => ConstructorRaised ]_vars
    /\ [][ (PreparesStep /\ Preparation.raised # "none")
              => ret' \in TerminalStates ]_vars

\* C36 (amended): the constructor prepares step 0 with the required-inputs
\* check and without a check of expected outputs; a failure of that
\* preparation propagates out of the constructor (no manager, no state
\* returned, exitcode not set), whereas next converts a failure of a later
\* step into a terminal state when the failure is an exception derived from
\* Exception; a SystemExit of the argument parser escapes next as it escapes
\* the constructor.
C36_FirstStepRaisesLaterCaught ==
    /\ [][ IsConstruct =>
              /\ (mgr' = "live") = FirstStepPreparable
              /\ ~FirstStepPreparable => ConstructorRaised ]_vars
    /\ [][ PreparesStep =>
              /\ Preparation.raised = "Exception" => ret' \in TerminalStates
              /\ Preparation.raised = "SystemExit" => ret' = "raised" ]_vars

\* C36 witness: the constructor failed on a well-formed first step whose
\* required inputs are missing, although nothing else was wrong; no state was
\* returned and no exit code set.
C36_Witness ==
    /\ mgr = "raised"
    /\ Len(descFile) >= 1
    /\ At(descFile, 0).fault = "none"
    /\ ~AllExist(At(descFile, 0).req, fs)
    /\ ret = "none"
    /\ exitcode = <<>>
    /\ ncalls = 0

\* C37: the stopped flag is false in every reachable state, so next never
\* returns STOPPED: a call that returns a state returns TERMINATED when the
\* preparation failed or the sequential task collection reported the end, and
\* otherwise the state the sequential task collection returned.
C37_NeverStopped ==
    /\ [](stopped = FALSE /\ ret # STOPPED)
    /\ [][ (IsNextCall /\ ret' # "raised") =>
              IF PreparesStep /\ Preparation.raised # "none"
              THEN ret' = TERMINATED
              ELSE ret' = SuperNext(lastDone', tasks') ]_vars

\* C37 witness: next(0) failed to prepare the second step and returned
\* TERMINATED on a live manager.
C37_Witness ==
    /\ mgr = "live"
    /\ ncalls = 1 /\ lastDone = 0
    /\ Len(descFile) >= 2
    /\ Len(tasks) = 1
    /\ ret = TERMINATED
    /\ ~stopped

(***************************************************************************)
(* Claims about create_debug_run_jobs                                      *)
(***************************************************************************)
\* the step just taken is a call of create_debug_run_jobs
IsDebugCall == dbgpc = "idle" /\ dbgpc' # "idle"

\* one job per batch, in batch order, with the requested resources
JobsOfBatches(a) ==
    [k \in 1..Len(a.batches) |->
        [job_id |-> a.batches[k].site_id,
         requested_walltime |-> a.duration,
         requested_memory |-> a.memory,
         requested_cores |-> a.cores.value]]

\* C38: create_debug_run_jobs adds exactly one job per batch, in batch order,
\* each with the requested duration, memory and a positive integer core
\* count; for every input, an empty batch list included, it raises TypeError
\* if cores is not an int and ValueError if cores <= 0, and then the job
\* collection is unchanged.
C38_DebugJobsValidated ==
    [][ IsDebugCall =>
          LET a == dbgArgs
          IN  /\ a.cores.type # "int" =>
                    (dbgErr' = "TypeError" /\ job_collection' = job_collection)
              /\ (a.cores.type = "int" /\ a.cores.value <= 0) =>
                    (dbgErr' = "ValueError" /\ job_collection' = job_collection)
              /\ (a.cores.type = "int" /\ a.cores.value > 0) =>
                    /\ dbgErr' = "none"
                    /\ job_collection' = job_collection \o JobsOfBatches(a) ]_vars

(***************************************************************************)
(* Claims about the pipeline property (continued)                          *)
(***************************************************************************)
\* the positions (from 1) of the active elements, in declared order
ActivePositions ==
    SelectSeq([k \in 1..Len(elements) |-> k], LAMBDA k : elements[k].active)

\* C39: the pipeline property returns exactly the active elements of the
\* pipeline description, in declared order, each with the name and the
\* handles description found at the element's position in the full list of
\* active and inactive elements; no path is checked for existence on behalf
\* of an inactive element.
C39_ActiveElementsPaired ==
    /\ bpc = "built" =>
          /\ Len(built) = Len(ActivePositions)
          /\ \A n \in 1..Len(built) :
                LET k == ActivePositions[n]
                IN  /\ built[n].source_file = SourceFile(elements[k].source)
                    /\ built[n].handles = k - 1
                    /\ built[n].name = k - 1
    /\ checked \subseteq
          {SourceFile(elements[k].source) :
              k \in {l \in 1..Len(elements) : elements[l].active}}

\* C39 witness: the property returned a module whose element stands behind an
\* inactive element, and that inactive element names a file that does not
\* exist.
C39_Witness ==
    /\ bpc = "built"
    /\ Len(elements) >= 2
    /\ ~elements[1].active
    /\ HasSlash(elements[1].source)
    /\ SourceFile(elements[1].source) \notin moduleFiles
    /\ elements[2].active
    /\ Len(built) >= 1
    /\ built[1].handles = 1

====
